---- MODULE Spec2Model ----
(***************************************************************************)
(* Model of the paginated extraction engine of tokopedia-scraper           *)
(* (src/tokopedia_graphql.py, TokopediaGraphQLScraper) as it is driven by  *)
(* the job layer (src/api/main.py, run_scraper_job), together with the     *)
(* term translator (TokopediaTranslator), the price clean-up of the CSV    *)
(* writer (src/csv_writer.py, _extract_price), the job service's HTTP     *)
(* handlers (src/api/main.py) and the in-memory job service                *)
(* (src/api_service.py, JobManager).                                       *)
(*                                                                         *)
(* Text (str) is a sequence of one-character strings.  An Optional value   *)
(* is a sequence of length 0 (None) or 1 (the value).                      *)
(***************************************************************************)
EXTENDS Integers, Sequences, FiniteSets, TLC

VARIABLES
    config,                \* self.config: max_products, max_pages
    status,                \* job_metadata.status
    pc,                    \* position in run_scraper_job / scrape_products
    page,                  \* local page of scrape_products
    start,                 \* local start of scrape_products
    scraped_products,      \* self.scraped_products
    excluded_product_ids,  \* self.excluded_product_ids
    search_id,             \* self.search_id (Optional)
    response_data,         \* local response_data (Optional)
    new_products,          \* local new_products
    results,               \* value returned by scrape_products (Optional)
    requests,              \* number of POSTs issued by the run
    params,                \* parameter dict of the last POST
    upstream,              \* what the upstream has answered so far
    endedBy,               \* which break statement ended the loop
    scraper,               \* which object the local scraper is (0: none yet)
    device_id,             \* self.device_id
    user_id,               \* self.user_id
    unique_id,             \* self.unique_id
    headers,               \* self.session.headers: the entries that hold ids
    calls,                 \* number of calls of scrape_products on scraper
    sent_headers,          \* headers of the last POST
    other,                 \* the variables of a second job while it waits
    source_text,           \* argument of TokopediaTranslator.translate
    translated,            \* what translate returned (Optional)
    price_str,             \* argument of TokopediaCSVWriter._extract_price
    csv_price,             \* what _extract_price returned (Optional)
    job_dirs,              \* the directories under results/jobs
    metadata,              \* job id -> contents of its job_metadata.json
    results_json,          \* job id -> contents of its json/results.json
    background,            \* the background tasks not yet run
    uuids,                 \* number of job ids uuid4 has given
    reply,                 \* the last HTTP response of the service
    job_manager,           \* api_service.job_manager: jobs, results, active_tasks
    event_loop,            \* the tasks asyncio has still to run
    search_request,        \* the keyword and brand entries of self.config
    search_query           \* local search_query of scrape_products (Optional)

(* the attributes _setup_session gives the scraper object *)
identity == <<scraper, device_id, user_id, unique_id, headers>>

(* what the engine never touches: the translator and the CSV writer called on *)
(* their own, and the job store of the service                                *)
(* the in-memory job service of api_service.py and the search query of a run *)
rest == <<job_manager, event_loop, search_request, search_query>>

aside == <<source_text, translated, price_str, csv_price, job_dirs,
           metadata,
           results_json, background, uuids, reply, rest>>

vars == <<config, status, pc, page, start, scraped_products,
          excluded_product_ids, search_id, response_data, new_products,
          results, requests, params, upstream, endedBy, identity, calls,
          sent_headers, other, aside>>

-----------------------------------------------------------------------------
(* Bounds of the model *)

MaxRecordCap == 3
MaxPageCap == 2
MaxFetch == 3
MaxEntries == 2
MaxPageLen == 3
MaxCalls == 2
MaxJobs == 2
MaxPieces == 3
MaxPriceLen == 4
MaxItems == 3
MaxPage == 3
MaxPageSize == 2
MaxQueryLen == 3

-----------------------------------------------------------------------------
(* Generic helpers *)

None == <<>>
Some(v) == <<v>>

SeqsUpTo(S, n) == UNION {[1..k -> S] : k \in 0..n}

Range(s) == {s[i] : i \in DOMAIN s}

IsPrefix(s, t) == Len(s) <= Len(t) /\ SubSeq(t, 1, Len(s)) = s

RECURSIVE Flatten(_)
Flatten(ss) == IF ss = <<>> THEN <<>> ELSE Head(ss) \o Flatten(Tail(ss))

(* str(n) of a non-negative int: its decimal digits *)
Digit(d) == <<"0", "1", "2", "3", "4", "5", "6", "7", "8", "9">>[d + 1]

RECURSIVE Str(_)
Str(n) == IF n < 10 THEN <<Digit(n)>> ELSE Str(n \div 10) \o <<Digit(n % 10)>>

(* str(n) of an int *)
StrInt(n) == IF n < 0 THEN <<"-">> \o Str(0 - n) ELSE Str(n)

(* Python truthiness of config.get("max_products") / config.get("max_pages") *)
Truthy(opt) == opt # None /\ opt[1] # 0

-----------------------------------------------------------------------------
(* TokopediaTranslator *)

IsSpace(c) == c = " "
IsPunct(c) == c \in {".", ",", "-"}
IsWord(c) == ~IsSpace(c) /\ ~IsPunct(c)

RECURSIVE Strip(_)
Strip(s) ==
    IF s = <<>> THEN s
    ELSE IF IsSpace(Head(s)) THEN Strip(Tail(s))
    ELSE IF IsSpace(s[Len(s)]) THEN Strip(SubSeq(s, 1, Len(s) - 1))
    ELSE s

translation_map ==
    ( <<"O", "r", "i">> :> <<"O", "r", "i", "g", "i", "n", "a", "l">> ) @@
    ( <<"B", "a", "r", "u">> :> <<"N", "e", "w">> ) @@
    ( <<"S", "e", "c", "o", "n", "d">> :>
          <<"S", "e", "c", "o", "n", "d", " ", "H", "a", "n", "d">> ) @@
    ( <<"K", "o", "t", "a">> :> <<"C", "i", "t", "y">> ) @@
    ( <<"K", "a", "b", ".">> :> <<"R", "e", "g", "e", "n", "c", "y">> ) @@
    ( <<"G", "r", "a", "t", "i", "s">> :> <<"F", "r", "e", "e">> ) @@
    ( <<"O", "n", "g", "k", "i", "r">> :>
          <<"S", "h", "i", "p", "p", "i", "n", "g">> ) @@
    ( <<"G", "r", "a", "t", "i", "s", " ", "O", "n", "g", "k", "i", "r">> :>
          <<"F", "r", "e", "e", " ", "S", "h", "i", "p", "p", "i", "n", "g">> )

(* length of the longest run of characters of one class at the head of s *)
RECURSIVE RunLen(_, _)
RunLen(s, space) ==
    IF s = <<>> \/ IsPunct(Head(s)) \/ IsSpace(Head(s)) # space THEN 0
    ELSE 1 + RunLen(Tail(s), space)

(* re.findall(r"\b\w+\b|\s+|[^\w\s]", text) *)
RECURSIVE Tokenize(_)
Tokenize(text) ==
    IF text = <<>> THEN <<>>
    ELSE LET n == IF IsPunct(Head(text)) THEN 1
                  ELSE RunLen(text, IsSpace(Head(text)))
         IN  <<SubSeq(text, 1, n)>> \o Tokenize(SubSeq(text, n + 1, Len(text)))

TranslatePartStripped(part) ==
    IF Strip(part) \in DOMAIN translation_map
    THEN translation_map[Strip(part)]
    ELSE Strip(part)

(* the body of the for loop of translate *)
TranslatePart(part) ==
    IF Strip(part) \in DOMAIN translation_map
    THEN translation_map[Strip(part)]
    ELSE part

RECURSIVE TranslateParts(_)
TranslateParts(words) ==
    IF words = <<>> THEN <<>>
    ELSE <<TranslatePart(Head(words))>> \o TranslateParts(Tail(words))

translate(text) ==
    IF text = <<>> THEN text ELSE Flatten(TranslateParts(Tokenize(text)))

-----------------------------------------------------------------------------
(* Upstream data: raw product entries, response bodies, HTTP responses *)

Ids == {1, 2}

Ori == <<"O", "r", "i">>
Blank == <<" ">>

(* a JSON value as dict.get reads it: the key is absent, or its value is    *)
(* null, a string, or a number (kept as the text str() gives)              *)
Absent == [kind |-> "absent", s |-> <<>>]
Null == [kind |-> "null", s |-> <<>>]
Text(s) == [kind |-> "str", s |-> s]
Number(n) == [kind |-> "int", s |-> StrInt(n)]

(* d.get(k, default) *)
Get(v, default) == IF v.kind = "absent" THEN default ELSE v

(* str(v) *)
PyStr(v) == IF v.kind = "null" THEN <<"N", "o", "n", "e">> ELSE v.s

(* bool(v) *)
PyTruthy(v) ==
    /\ v.kind \notin {"absent", "null"}
    /\ v.s # <<>>
    /\ ~(v.kind = "int" /\ v.s = <<"0">>)

IsDigits(s) ==
    s # <<>> /\ \A i \in DOMAIN s : \E d \in 0..9 : Digit(d) = s[i]

(* the value of a string of decimal digits *)
RECURSIVE ParseNat(_)
ParseNat(s) ==
    IF s = <<>> THEN 0
    ELSE 10 * ParseNat(SubSeq(s, 1, Len(s) - 1))
         + (CHOOSE d \in 0..9 : Digit(d) = s[Len(s)])

(* a raw entry of data.searchProductV5.data.products.  price, shop and     *)
(* mediaURL are "absent", "null" or "dict"; their sub-fields are read only *)
(* from a "dict"                                                           *)
RawProduct(hasOldID, oldID, hasName, name, price) ==
    [hasOldID |-> hasOldID, oldID |-> oldID,
     name |-> IF hasName THEN Text(name) ELSE Absent,
     url |-> Absent,
     price |-> price, text |-> Absent, original |-> Absent,
     discountPercentage |-> Absent,
     shop |-> "absent", shopName |-> Absent, city |-> Absent,
     shopUrl |-> Absent, shopOldID |-> Absent,
     mediaURL |-> "absent", image |-> Absent, image300 |-> Absent,
     rating |-> Absent]

RawProducts ==
    {RawProduct(TRUE, i, TRUE, Ori, "dict") : i \in Ids} \cup
    {RawProduct(TRUE, 1, TRUE, Blank, "dict"),
     RawProduct(TRUE, 2, TRUE, Ori, "null")}

(* entries for the response normalizer: the ways a name can be missing,     *)
(* the ways mapping an entry can raise, and every subset of the other      *)
(* fields being absent                                                     *)
Product(id) == RawProduct(TRUE, id, TRUE, Ori, "absent")

NameKinds == {Absent, Null, Text(<<>>), Text(Blank)}

TitleProducts ==
    {Product(i) : i \in Ids} \cup {[Product(3) EXCEPT !.name = n] : n \in NameKinds}

RaisingProducts ==
    {[Product(4) EXCEPT !.price = "null"],
     [Product(4) EXCEPT !.price = "dict", !.discountPercentage = Null],
     [Product(4) EXCEPT !.shop = "null"],
     [Product(4) EXCEPT !.mediaURL = "null"]}

Maybe(v) == {Absent, v}

PartialProducts ==
    {p \in
     {[hasOldID |-> hasOldID, oldID |-> 1, name |-> Text(Ori), url |-> url,
      price |-> price, text |-> text, original |-> original,
      discountPercentage |-> discountPercentage,
      shop |-> shop, shopName |-> shopName, city |-> city,
      shopUrl |-> shopUrl, shopOldID |-> shopOldID,
      mediaURL |-> mediaURL, image |-> image, image300 |-> image300,
      rating |-> rating] :
        hasOldID \in BOOLEAN,
        url \in Maybe(Text(<<"/", "p">>)),
        price \in {"absent", "dict"},
        text \in Maybe(Text(<<"R", "p", "1">>)),
        original \in Maybe(Text(<<"R", "p", "2">>)),
        discountPercentage \in Maybe(Number(5)),
        shop \in {"absent", "dict"},
        shopName \in Maybe(Text(Ori)),
        city \in Maybe(Text(<<"K", "o", "t", "a">>)),
        shopUrl \in Maybe(Text(<<"/", "s">>)),
        shopOldID \in Maybe(Number(7)),
        mediaURL \in {"absent", "dict"},
        image \in Maybe(Text(<<"/", "/", "i">>)),
        image300 \in Maybe(Text(<<"/", "j">>)),
        rating \in Maybe(Number(4))} :
        /\ p.price = "absent" =>
              {p.text, p.original, p.discountPercentage} = {Absent}
        /\ p.shop = "absent" =>
              {p.shopName, p.city, p.shopUrl, p.shopOldID} = {Absent}
        /\ p.mediaURL = "absent" => {p.image, p.image300} = {Absent}}

(* texts given to translate: up to MaxPieces pieces written one after the   *)
(* other, so that words, dictionary terms, spaces and punctuation meet in   *)
(* every order                                                              *)
Pieces ==
    {Ori, <<"S", "e", "c", "o", "n", "d">>, <<"x">>, <<" ">>, <<".">>,
     <<"K", "a", "b">>, <<"G", "r", "a", "t", "i", "s">>,
     <<"O", "n", "g", "k", "i", "r">>}

Texts == {Flatten(ps) : ps \in SeqsUpTo(Pieces, MaxPieces)}

(* price strings given to _extract_price: the formats upstream uses and   *)
(* every short text of digits, separators and a letter                   *)
PriceStrings ==
    {<<"R", "p", "1", ".", "2", "4", "6", ".", "0", "7", "2">>,
     <<"1", ",", "2", "4", "6", ".", "0", "7">>,
     <<"1", ".", "2", "4", "6", ",", "0", "7">>,
     <<"a", "b", "c">>,
     <<"1", ",", "2", ",", "3">>} \cup
    SeqsUpTo({"0", "1", ".", ",", "R"}, MaxPriceLen)

(* the forms a URL of an entry can have: none, site-relative,             *)
(* protocol-relative, relative without a slash, absolute                  *)
UrlKinds ==
    {Absent, Text(<<"/", "p">>), Text(<<"/", "/", "p">>), Text(<<"p">>),
     Text(<<"h", "t", "t", "p", ":", "/", "/", "p">>)}

(* titled entries with a product URL, a seller URL and an image URL of any *)
(* form, with and without a seller id                                      *)
UrlProducts ==
    {[Product(1) EXCEPT !.url = url, !.shop = "dict", !.shopUrl = shopUrl,
                        !.shopOldID = shopOldID, !.mediaURL = "dict",
                        !.image = image] :
        url \in UrlKinds, shopUrl \in UrlKinds, image \in UrlKinds,
        shopOldID \in Maybe(Number(7))}

NormalizerProducts ==
    TitleProducts \cup RaisingProducts \cup PartialProducts \cup UrlProducts

Param(k, v) == [k |-> k, v |-> v]

S1 == <<"s", "1">>
S2 == <<"s", "2">>

(* header.additionalParams, split at "&" and at the first "=" *)
AdditionalParams ==
    {<<Param("user_id", <<"0">>), Param("search_id", S1)>>,
     <<Param("search_id", S2)>>,
     <<Param("search_id", <<>>)>>}

(* the first element of the JSON body (or the body itself when empty) *)
Data(shape, header, additionalParams, productsKind, products) ==
    [shape |-> shape, header |-> header, additionalParams |-> additionalParams,
     productsKind |-> productsKind, products |-> products]

EmptyList == Data("emptylist", "absent", <<>>, "absent", <<>>)
EmptyDict == Data("emptydict", "absent", <<>>, "absent", <<>>)

Malformed ==
    {Data(sh, "absent", <<>>, "absent", <<>>) :
        sh \in {"nodata", "nulldata", "nosearch", "nullsearch"}}

(* pages without header.additionalParams carry any list of entries; pages *)
(* with it carry no entry or one                                          *)
SearchData ==
    {Data("search", "absent", <<>>, "list", ps) :
        ps \in SeqsUpTo(RawProducts, MaxEntries)} \cup
    {Data("search", "params", ap, "list", ps) :
        ap \in AdditionalParams,
        ps \in SeqsUpTo({RawProduct(TRUE, 1, TRUE, Ori, "dict")}, 1)} \cup
    {Data("search", "absent", <<>>, k, <<>>) : k \in {"absent", "null"}}

(* what session.post gives: a network error, or a status and a body *)
Response(net, status_code, json, items) ==
    [net |-> net, status_code |-> status_code, json |-> json, items |-> items]

FailedResponses ==
    {Response("error", 0, "invalid", <<>>),
     Response("ok", 500, "list", <<>>),
     Response("ok", 200, "invalid", <<>>),
     Response("ok", 200, "dict", <<>>),
     Response("ok", 200, "emptydict", <<>>),
     Response("ok", 200, "list", <<>>),
     Response("ok", 200, "list", <<EmptyDict>>)}

Responses ==
    FailedResponses \cup
    {Response("ok", 200, "list", <<d>>) : d \in Malformed \cup SearchData}

-----------------------------------------------------------------------------
(* TokopediaGraphQLScraper *)

RECURSIVE Join(_, _)
Join(sep, ss) ==
    IF ss = <<>> THEN <<>>
    ELSE IF Len(ss) = 1 THEN ss[1]
    ELSE ss[1] \o sep \o Join(sep, Tail(ss))

TruthyStr(opt) == opt # None /\ opt[1] # <<>>

(* urllib.parse.quote: letters, digits and "_.-~/" stay, any other character  *)
(* becomes "%XX"                                                              *)
QuoteChar(c) ==
    IF c = "," THEN <<"%", "2", "C">>
    ELSE IF c = " " THEN <<"%", "2", "0">>
    ELSE <<c>>

RECURSIVE quote(_)
quote(s) == IF s = <<>> THEN <<>> ELSE QuoteChar(Head(s)) \o quote(Tail(s))

BuildSearchParamsAnyPage(pg, st, excluded, sid, unique, user) ==
    LET base == [k \in {"page", "rows", "start", "unique_id", "user_id"} |->
                    IF k = "page" THEN quote(StrInt(pg))
                    ELSE IF k = "rows" THEN quote(<<"6", "0">>)
                    ELSE IF k = "start" THEN quote(StrInt(st))
                    ELSE IF k = "unique_id" THEN quote(unique)
                    ELSE quote(user)]
        more == [k \in {"has_more", "next_offset_organic",
                        "next_offset_organic_ad"} |->
                    IF k = "has_more" THEN quote(<<"t", "r", "u", "e">>)
                    ELSE quote(StrInt(st - 60))]
        minus == IF excluded # <<>>
                 THEN [k \in {"minus_ids"} |-> quote(Join(<<",">>, excluded))]
                 ELSE <<>>
        sidp == IF TruthyStr(sid)
                THEN [k \in {"search_id"} |-> quote(sid[1])]
                ELSE <<>>
    IN  IF pg > 1 THEN base @@ more @@ minus @@ sidp
        ELSE base @@ minus @@ sidp

(* the pairs k=quote(str(v)) of the parameter string, keyed by k *)
BuildSearchParams(pg, st, excluded, sid, unique, user) ==
    LET base == [k \in {"page", "rows", "start", "unique_id", "user_id"} |->
                    IF k = "page" THEN quote(StrInt(pg))
                    ELSE IF k = "rows" THEN quote(<<"6", "0">>)
                    ELSE IF k = "start" THEN quote(StrInt(st))
                    ELSE IF k = "unique_id" THEN quote(unique)
                    ELSE quote(user)]
        more == [k \in {"has_more", "next_offset_organic",
                        "next_offset_organic_ad"} |->
                    IF k = "has_more" THEN quote(<<"t", "r", "u", "e">>)
                    ELSE quote(StrInt(st - 60))]
        minus == IF excluded # <<>>
                 THEN [k \in {"minus_ids"} |-> quote(Join(<<",">>, excluded))]
                 ELSE <<>>
        sidp == IF TruthyStr(sid)
                THEN [k \in {"search_id"} |-> quote(sid[1])]
                ELSE <<>>
    IN  IF pg > 1 THEN base @@ more @@ minus @@ sidp ELSE base

MakeGraphqlRequest(resp) ==
    IF resp.net = "error" THEN None
    ELSE IF resp.status_code # 200 THEN None
    ELSE IF resp.json = "invalid" THEN None
    ELSE IF resp.json = "dict" THEN None
    ELSE IF resp.json = "emptydict" THEN Some(EmptyDict)
    ELSE IF Len(resp.items) > 0 THEN Some(resp.items[1])
    ELSE Some(EmptyList)

(* "not response_data" *)
Falsy(rd) == rd = None \/ rd[1].shape \in {"emptylist", "emptydict"}

RECURSIVE FirstSearchId(_)
FirstSearchId(ps) ==
    IF ps = <<>> THEN None
    ELSE IF Head(ps).k = "search_id" THEN Some(Head(ps).v)
    ELSE FirstSearchId(Tail(ps))

ExtractSearchId(data) ==
    IF data.shape = "search" /\ data.header = "params"
    THEN FirstSearchId(data.additionalParams)
    ELSE None

Origin ==
    <<"h", "t", "t", "p", "s", ":", "/", "/", "w", "w", "w", ".", "t", "o",
      "k", "o", "p", "e", "d", "i", "a", ".", "c", "o", "m">>

startswith(s, prefix) == IsPrefix(prefix, s)

(* "Make URLs absolute if needed" *)
ProductUrl(product_url) ==
    IF product_url # <<>> /\ ~startswith(product_url, <<"h", "t", "t", "p">>)
    THEN IF startswith(product_url, <<"/">>) THEN Origin \o product_url
         ELSE product_url
    ELSE product_url

StoreUrl(store_url, store_id) ==
    IF store_url # <<>> /\ ~startswith(store_url, <<"h", "t", "t", "p">>)
    THEN IF startswith(store_url, <<"/">>) THEN Origin \o store_url
         ELSE store_url
    ELSE IF store_url = <<>> /\ store_id # <<>>
    THEN Origin \o <<"/", "s", "t", "o", "r", "e", "/">> \o store_id
    ELSE store_url

ImageUrl(image_url) ==
    IF image_url # <<>> /\ ~startswith(image_url, <<"h", "t", "t", "p">>)
    THEN IF startswith(image_url, <<"/", "/">>)
         THEN <<"h", "t", "t", "p", "s", ":">> \o image_url
         ELSE IF startswith(image_url, <<"/">>) THEN Origin \o image_url
         ELSE image_url
    ELSE image_url

FormatProductStrict(p) ==
    LET product_id == IF p.hasOldID THEN StrInt(p.oldID) ELSE <<>>
        title == Strip(PyStr(Get(p.name, Text(<<>>))))
        product_url == PyStr(Get(p.url, Text(<<>>)))
        \* price_data.get(...): price_data is {} when the key is absent
        ofPrice(v) == IF p.price = "dict" THEN v ELSE Absent
        sale_price == PyStr(Get(ofPrice(p.text), Text(<<>>)))
        original == Get(ofPrice(p.original), Text(sale_price))
        original_price == IF PyTruthy(original) THEN PyStr(original)
                          ELSE sale_price
        discount == Get(ofPrice(p.discountPercentage), Number(0))
        ofShop(v) == IF p.shop = "dict" THEN v ELSE Absent
        store_name == PyStr(Get(ofShop(p.shopName), Text(<<>>)))
        store_location == PyStr(Get(ofShop(p.city), Text(<<>>)))
        store_url == PyStr(Get(ofShop(p.shopUrl), Text(<<>>)))
        store_id == PyStr(Get(ofShop(p.shopOldID), Text(<<>>)))
        ofMedia(v) == IF p.mediaURL = "dict" THEN v ELSE Absent
        image == Get(ofMedia(p.image), Text(<<>>))
        image_url == PyStr(IF PyTruthy(image) THEN image
                           ELSE Get(ofMedia(p.image300), Text(<<>>)))
        rating_raw == Get(p.rating, Number(0))
        rating == IF PyTruthy(rating_raw) /\ IsDigits(rating_raw.s)
                  THEN ParseNat(rating_raw.s) ELSE 0
        \* AttributeError of None.get, TypeError / ValueError of int()
        raises == \/ p.price \in {"null", "absent"}
                  \/ discount.kind = "null"
                  \/ ~IsDigits(discount.s)
                  \/ p.shop = "null"
                  \/ p.mediaURL = "null"
    IN  IF title = <<>> THEN None
        ELSE IF raises THEN None
        ELSE Some([ProductID |-> product_id,
                   Title |-> translate(title),
                   SalePrice |-> sale_price,
                   OriginalPrice |-> original_price,
                   Discount |-> ParseNat(discount.s),
                   Rating |-> IF rating > 0 THEN Some(rating) ELSE None,
                   StoreName |-> IF store_name # <<>>
                                 THEN Some(translate(store_name)) ELSE None,
                   StoreID |-> IF store_id # <<>> THEN Some(store_id)
                               ELSE None,
                   StoreURL |-> IF StoreUrl(store_url, store_id) # <<>>
                                THEN Some(StoreUrl(store_url, store_id))
                                ELSE None,
                   ProductURL |-> ProductUrl(product_url),
                   ImageURL |-> ImageUrl(image_url),
                   Location |-> IF store_location # <<>>
                                THEN Some(translate(store_location))
                                ELSE None])

(* _format_product: None when the entry has no title or mapping it raises *)
FormatProduct(p) ==
    LET product_id == IF p.hasOldID THEN StrInt(p.oldID) ELSE <<>>
        title == Strip(PyStr(Get(p.name, Text(<<>>))))
        product_url == PyStr(Get(p.url, Text(<<>>)))
        \* price_data.get(...): price_data is {} when the key is absent
        ofPrice(v) == IF p.price = "dict" THEN v ELSE Absent
        sale_price == PyStr(Get(ofPrice(p.text), Text(<<>>)))
        original == Get(ofPrice(p.original), Text(sale_price))
        original_price == IF PyTruthy(original) THEN PyStr(original)
                          ELSE sale_price
        discount == Get(ofPrice(p.discountPercentage), Number(0))
        ofShop(v) == IF p.shop = "dict" THEN v ELSE Absent
        store_name == PyStr(Get(ofShop(p.shopName), Text(<<>>)))
        store_location == PyStr(Get(ofShop(p.city), Text(<<>>)))
        store_url == PyStr(Get(ofShop(p.shopUrl), Text(<<>>)))
        store_id == PyStr(Get(ofShop(p.shopOldID), Text(<<>>)))
        ofMedia(v) == IF p.mediaURL = "dict" THEN v ELSE Absent
        image == Get(ofMedia(p.image), Text(<<>>))
        image_url == PyStr(IF PyTruthy(image) THEN image
                           ELSE Get(ofMedia(p.image300), Text(<<>>)))
        rating_raw == Get(p.rating, Number(0))
        rating == IF PyTruthy(rating_raw) /\ IsDigits(rating_raw.s)
                  THEN ParseNat(rating_raw.s) ELSE 0
        \* AttributeError of None.get, TypeError / ValueError of int()
        raises == \/ p.price = "null"
                  \/ discount.kind = "null"
                  \/ ~IsDigits(discount.s)
                  \/ p.shop = "null"
                  \/ p.mediaURL = "null"
    IN  IF title = <<>> THEN None
        ELSE IF raises THEN None
        ELSE Some([ProductID |-> product_id,
                   Title |-> translate(title),
                   SalePrice |-> sale_price,
                   OriginalPrice |-> original_price,
                   Discount |-> ParseNat(discount.s),
                   Rating |-> IF rating > 0 THEN Some(rating) ELSE None,
                   StoreName |-> IF store_name # <<>>
                                 THEN Some(translate(store_name)) ELSE None,
                   StoreID |-> IF store_id # <<>> THEN Some(store_id)
                               ELSE None,
                   StoreURL |-> IF StoreUrl(store_url, store_id) # <<>>
                                THEN Some(StoreUrl(store_url, store_id))
                                ELSE None,
                   ProductURL |-> ProductUrl(product_url),
                   ImageURL |-> ImageUrl(image_url),
                   Location |-> IF store_location # <<>>
                                THEN Some(translate(store_location))
                                ELSE None])

(* _format_product, tabulated for the entries of RawProducts *)
FormatTable == [p \in RawProducts |-> FormatProduct(p)]

Formatted(p) == IF p \in RawProducts THEN FormatTable[p] ELSE FormatProduct(p)

RECURSIVE ExtractLoopTrackAll(_, _, _)
ExtractLoopTrackAll(raw, products, excluded) ==
    IF raw = <<>> THEN [products |-> products, excluded |-> excluded]
    ELSE LET product == Head(raw)
             formatted == Formatted(product)
             tracked == IF product.hasOldID
                        THEN Append(excluded, StrInt(product.oldID))
                        ELSE excluded
         IN  IF formatted # None
             THEN ExtractLoopTrackAll(Tail(raw),
                      Append(products, formatted[1]), tracked)
             ELSE ExtractLoopTrackAll(Tail(raw), products, tracked)

RECURSIVE ExtractLoopStopAtNone(_, _, _)
ExtractLoopStopAtNone(raw, products, excluded) ==
    IF raw = <<>> THEN [products |-> products, excluded |-> excluded]
    ELSE LET product == Head(raw)
             formatted == Formatted(product)
         IN  IF formatted # None
             THEN ExtractLoopStopAtNone(Tail(raw),
                      Append(products, formatted[1]),
                      IF product.hasOldID
                      THEN Append(excluded, StrInt(product.oldID))
                      ELSE excluded)
             ELSE [products |-> products, excluded |-> excluded]

(* the for loop of _extract_products_from_response *)
RECURSIVE ExtractLoop(_, _, _)
ExtractLoop(raw, products, excluded) ==
    IF raw = <<>> THEN [products |-> products, excluded |-> excluded]
    ELSE LET product == Head(raw)
             formatted == Formatted(product)
         IN  IF formatted # None
             THEN ExtractLoop(Tail(raw), Append(products, formatted[1]),
                      IF product.hasOldID
                      THEN Append(excluded, StrInt(product.oldID))
                      ELSE excluded)
             ELSE ExtractLoop(Tail(raw), products, excluded)

ExtractSidAlways(data, sid) ==
    IF data.shape \in {"search", "nullsearch"}
    THEN ExtractSearchId(data)
    ELSE sid

ExtractSid(data, sid) ==
    IF data.shape \in {"search", "nullsearch"} /\ ~TruthyStr(sid)
    THEN ExtractSearchId(data)
    ELSE sid

ExtractProductsPerPage(data, excluded, sid) ==
    LET loop == IF data.shape = "search" /\ data.productsKind = "list"
                THEN ExtractLoop(data.products, <<>>, <<>>)
                ELSE [products |-> <<>>, excluded |-> <<>>]
    IN  [products |-> loop.products, excluded |-> loop.excluded,
         search_id |-> ExtractSid(data, sid)]

ExtractProductsFromResponse(data, excluded, sid) ==
    LET loop == IF data.shape = "search" /\ data.productsKind = "list"
                THEN ExtractLoop(data.products, <<>>, excluded)
                ELSE [products |-> <<>>, excluded |-> excluded]
    IN  [products |-> loop.products, excluded |-> loop.excluded,
         search_id |-> ExtractSid(data, sid)]

AddProductsNoCap(scraped, new, max_products) == scraped \o new

AddProductsNewestFirst(scraped, new, max_products) ==
    IF Truthy(max_products)
    THEN SubSeq(new \o scraped, 1,
                IF Len(new \o scraped) < max_products[1]
                THEN Len(new \o scraped) ELSE max_products[1])
    ELSE new \o scraped

(* the for loop of scrape_products that adds the page to the collection *)
RECURSIVE AddProducts(_, _, _)
AddProducts(scraped, new, max_products) ==
    IF new = <<>> THEN scraped
    ELSE IF Truthy(max_products) /\ Len(scraped) >= max_products[1]
    THEN scraped
    ELSE AddProducts(Append(scraped, Head(new)), Tail(new), max_products)

(* the upstream identifiers of the raw entries of a list of entries *)
IdsOf(raw) == {StrInt(raw[i].oldID) : i \in {n \in DOMAIN raw : raw[n].hasOldID}}

(* ... and of those of them that _format_product turns into a record *)
FormattedIdsOf(raw) ==
    {StrInt(raw[i].oldID) :
        i \in {n \in DOMAIN raw :
                 raw[n].hasOldID /\ Formatted(raw[n]) # None}}

RawOf(resp) == IF resp.items = <<>> THEN <<>> ELSE resp.items[1].products

-----------------------------------------------------------------------------
(* TokopediaCSVWriter *)

IsDigit(c) == \E d \in 0..9 : Digit(d) = c

(* re.sub(r"[^\d,.]", "", s) *)
KeepPriceChars(s) == SelectSeq(s, LAMBDA c : IsDigit(c) \/ c \in {",", "."})

(* s.replace(old, new) for a one-character old *)
RECURSIVE replace(_, _, _)
replace(s, old, new) ==
    IF s = <<>> THEN <<>>
    ELSE (IF Head(s) = old THEN new ELSE <<Head(s)>>)
         \o replace(Tail(s), old, new)

(* s.rfind(c): the last index of c counted from 0, or -1 *)
rfind(s, c) ==
    IF c \in Range(s)
    THEN (CHOOSE i \in DOMAIN s :
              s[i] = c /\ \A j \in DOMAIN s : s[j] = c => j <= i) - 1
    ELSE 0 - 1

(* float(s) of a text of digits and dots does not raise ValueError *)
ParsesAsFloat(s) ==
    /\ \E i \in DOMAIN s : IsDigit(s[i])
    /\ Cardinality({i \in DOMAIN s : s[i] = "."}) <= 1

RECURSIVE LStripZeros(_)
LStripZeros(s) ==
    IF s # <<>> /\ Head(s) = "0" THEN LStripZeros(Tail(s)) ELSE s

RECURSIVE RStripZeros(_)
RStripZeros(s) ==
    IF s # <<>> /\ s[Len(s)] = "0"
    THEN RStripZeros(SubSeq(s, 1, Len(s) - 1))
    ELSE s

(* str(float(s)) of such a text: the repr of a float that has fewer than 16 *)
(* significant digits and is 0 or at least 0.0001 is its decimal expansion  *)
(* with at least one digit on each side of the point                        *)
StrFloat(s) ==
    LET dot == IF "." \in Range(s) THEN rfind(s, ".") + 1 ELSE Len(s) + 1
        whole == LStripZeros(SubSeq(s, 1, dot - 1))
        frac == RStripZeros(SubSeq(s, dot + 1, Len(s)))
    IN  (IF whole = <<>> THEN <<"0">> ELSE whole) \o <<".">>
        \o (IF frac = <<>> THEN <<"0">> ELSE frac)

(* price_clean of _extract_price when it reaches the try statement *)
PriceClean(s) ==
    LET price_clean == KeepPriceChars(s)
    IN  IF "." \in Range(price_clean) /\ "," \notin Range(price_clean)
        THEN replace(price_clean, ".", <<>>)
        ELSE IF "," \in Range(price_clean)
        THEN IF rfind(price_clean, ",") > rfind(price_clean, ".")
             THEN replace(replace(price_clean, ".", <<>>), ",", <<".">>)
             ELSE replace(price_clean, ",", <<>>)
        ELSE price_clean

Returns(v) == [raised |-> FALSE, value |-> v]
Raised(e) == [raised |-> TRUE, value |-> e]

ExtractPriceUnguarded(s) ==
    IF s = <<>> THEN Returns(<<>>)
    ELSE IF ParsesAsFloat(PriceClean(s))
    THEN Returns(StrFloat(PriceClean(s)))
    ELSE Raised(<<"V", "a", "l", "u", "e", "E", "r", "r", "o", "r">>)

(* _extract_price *)
ExtractPrice(s) ==
    IF s = <<>> THEN Returns(<<>>)
    ELSE IF ParsesAsFloat(PriceClean(s))
    THEN Returns(StrFloat(PriceClean(s)))
    ELSE Returns(PriceClean(s))

-----------------------------------------------------------------------------
(* State machine: run_scraper_job around scrape_products *)

(* what _setup_session can draw with random.randint and uuid.uuid4 *)
Identities ==
    {[device_id |-> <<"1", "1">>, user_id |-> <<"2", "1">>,
      unique_id |-> <<"a", "1">>],
     [device_id |-> <<"1", "2">>, user_id |-> <<"2", "2">>,
      unique_id |-> <<"a", "2">>]}

(* the entries of session.headers that hold an id *)
SessionHeaders(id) ==
    ( "bd-device-id" :> id.device_id ) @@
    ( "bd-web-id" :> id.device_id ) @@
    ( "tkpd-userid" :> id.user_id )

(* _setup_session *)
SetupSession ==
    \E id \in Identities :
        /\ device_id' = id.device_id
        /\ user_id' = id.user_id
        /\ unique_id' = id.unique_id
        /\ headers' = SessionHeaders(id)

(* no second job *)
NoJob == [pc |-> "none", scraper |-> 0]

(* TokopediaGraphQLScraper(config) gives an object that did not exist *)
NewScraper == other.scraper + 1

Caps(n) == {None} \cup {Some(m) : m \in 1..n}

Configs ==
    [max_products : Caps(MaxRecordCap), max_pages : Caps(MaxPageCap)]

Capped == Truthy(config.max_products) \/ Truthy(config.max_pages)

NoUpstream == [ids |-> {}, formatted |-> {}, products |-> <<>>, empty |-> FALSE]

InitScraper ==
    /\ status = "pending"
    /\ pc = "job"
    /\ page = 0
    /\ start = 0
    /\ scraped_products = <<>>
    /\ excluded_product_ids = <<>>
    /\ search_id = None
    /\ response_data = None
    /\ new_products = <<>>
    /\ results = None
    /\ requests = 0
    /\ params = <<>>
    /\ upstream = NoUpstream
    /\ endedBy = "none"
    /\ scraper = 0
    /\ device_id = <<>>
    /\ user_id = <<>>
    /\ unique_id = <<>>
    /\ headers = <<>>
    /\ calls = 0
    /\ sent_headers = <<>>

(* the job ids the service is asked about: 0 is an id uuid4 never gave *)
JobIds == 0..MaxJobs

NoFile == [status |-> "nofile"]

NoReply == [op |-> "none", status_code |-> 0]

(* JobManager.__init__ *)
NoManager ==
    [jobs |-> [j \in JobIds |-> None],
     results |-> [j \in JobIds |-> None],
     active_tasks |-> {}]

NoRequest == [keyword |-> <<>>, brand |-> [kind |-> "absent", s |-> <<>>]]

(* the in-memory service has just started; no search query was built *)
Idle ==
    /\ job_manager = NoManager
    /\ event_loop = {}
    /\ search_request = NoRequest
    /\ search_query = None

(* translate and _extract_price not called; a service that has just started *)
(* on an empty results directory                                            *)
Aside ==
    /\ Idle
    /\ source_text = <<>>
    /\ translated = None
    /\ price_str = <<>>
    /\ csv_price = None
    /\ job_dirs = {}
    /\ metadata = [j \in JobIds |-> NoFile]
    /\ results_json = [j \in JobIds |-> NoFile]
    /\ background = {}
    /\ uuids = 0
    /\ reply = NoReply

Init == config \in Configs /\ InitScraper /\ other = NoJob /\ Aside

RunScraperJobSharedScraper ==
    /\ pc = "job"
    /\ status' = "running"
    /\ IF other.scraper = 0
       THEN /\ scraper' = NewScraper
            /\ scraped_products' = <<>>
            /\ excluded_product_ids' = <<>>
            /\ search_id' = None
            /\ SetupSession
       ELSE /\ scraper' = other.scraper
            /\ scraped_products' = other.scraped_products
            /\ excluded_product_ids' = other.excluded_product_ids
            /\ search_id' = other.search_id
            /\ device_id' = other.device_id
            /\ user_id' = other.user_id
            /\ unique_id' = other.unique_id
            /\ headers' = other.headers
    /\ calls' = 1
    /\ page' = 1
    /\ start' = 0
    /\ pc' = "check"
    /\ UNCHANGED <<config, response_data, new_products, results, requests,
                   params, upstream, endedBy, sent_headers, other,
                   aside>>

(* run_scraper_job up to the call of scrape_products, and the head of *)
(* scrape_products                                                    *)
RunScraperJob ==
    /\ pc = "job"
    /\ status' = "running"
    /\ scraper' = NewScraper
    /\ scraped_products' = <<>>
    /\ excluded_product_ids' = <<>>
    /\ search_id' = None
    /\ SetupSession
    /\ calls' = 1
    /\ page' = 1
    /\ start' = 0
    /\ pc' = "check"
    /\ UNCHANGED <<config, response_data, new_products, results, requests,
                   params, upstream, endedBy, sent_headers, other,
                   aside>>

StopCheckPagesOnly ==
    /\ pc = "check"
    /\ IF Truthy(config.max_pages) /\ page > config.max_pages[1]
       THEN endedBy' = "max_pages" /\ pc' = "return"
       ELSE endedBy' = endedBy /\ pc' = "request"
    /\ UNCHANGED <<config, status, page, start, scraped_products,
                   excluded_product_ids, search_id, response_data,
                   new_products, results, requests, params, upstream,
                   identity, calls, sent_headers, other,
                   aside>>

(* "Check limits" at the top of the while loop *)
StopCheck ==
    /\ pc = "check"
    /\ IF Truthy(config.max_products)
          /\ Len(scraped_products) >= config.max_products[1]
       THEN endedBy' = "max_products" /\ pc' = "return"
       ELSE IF Truthy(config.max_pages) /\ page > config.max_pages[1]
       THEN endedBy' = "max_pages" /\ pc' = "return"
       ELSE endedBy' = endedBy /\ pc' = "request"
    /\ UNCHANGED <<config, status, page, start, scraped_products,
                   excluded_product_ids, search_id, response_data,
                   new_products, results, requests, params, upstream,
                   identity, calls, sent_headers, other,
                   aside>>

RequestNewSession ==
    /\ pc = "request"
    /\ requests < MaxFetch
    /\ SetupSession
    /\ params' = BuildSearchParams(page, start, excluded_product_ids,
                                   search_id, unique_id', user_id')
    /\ sent_headers' = headers'
    /\ requests' = requests + 1
    /\ \E resp \in Responses :
         /\ response_data' = MakeGraphqlRequest(resp)
         /\ upstream' = [upstream EXCEPT
                           !.ids = @ \cup IdsOf(RawOf(resp)),
                           !.formatted = @ \cup FormattedIdsOf(RawOf(resp))]
    /\ IF Falsy(response_data')
       THEN endedBy' = "failure" /\ pc' = "return"
       ELSE endedBy' = endedBy /\ pc' = "extract"
    /\ UNCHANGED <<config, status, page, start, scraped_products,
                   excluded_product_ids, search_id, new_products, results,
                   scraper, calls, other,
                   aside>>

RequestRetry ==
    /\ pc = "request"
    /\ requests < MaxFetch
    /\ params' = BuildSearchParams(page, start, excluded_product_ids,
                                   search_id, unique_id, user_id)
    /\ sent_headers' = headers
    /\ requests' = requests + 1
    /\ \E resp \in Responses :
         /\ response_data' = MakeGraphqlRequest(resp)
         /\ upstream' = [upstream EXCEPT
                           !.ids = @ \cup IdsOf(RawOf(resp)),
                           !.formatted = @ \cup FormattedIdsOf(RawOf(resp))]
    /\ IF Falsy(response_data')
       THEN endedBy' = "failure" /\ pc' = "request"
       ELSE endedBy' = endedBy /\ pc' = "extract"
    /\ UNCHANGED <<config, status, page, start, scraped_products,
                   excluded_product_ids, search_id, new_products, results,
                   identity, calls, other,
                   aside>>

(* _make_graphql_request and the "if not response_data" that follows *)
Request ==
    /\ pc = "request"
    /\ requests < MaxFetch
    /\ params' = BuildSearchParams(page, start, excluded_product_ids,
                                   search_id, unique_id, user_id)
    /\ sent_headers' = headers
    /\ requests' = requests + 1
    /\ \E resp \in Responses :
         /\ response_data' = MakeGraphqlRequest(resp)
         /\ upstream' = [upstream EXCEPT
                           !.ids = @ \cup IdsOf(RawOf(resp)),
                           !.formatted = @ \cup FormattedIdsOf(RawOf(resp))]
    /\ IF Falsy(response_data')
       THEN endedBy' = "failure" /\ pc' = "return"
       ELSE endedBy' = endedBy /\ pc' = "extract"
    /\ UNCHANGED <<config, status, page, start, scraped_products,
                   excluded_product_ids, search_id, new_products, results,
                   identity, calls, other,
                   aside>>

ExtractSkipMalformed ==
    /\ pc = "extract"
    /\ LET r == ExtractProductsFromResponse(response_data[1],
                    excluded_product_ids, search_id)
       IN  /\ new_products' = r.products
           /\ excluded_product_ids' = r.excluded
           /\ search_id' = r.search_id
           /\ upstream' = [upstream EXCEPT
                             !.products = @ \o r.products,
                             !.empty = @ \/ r.products = <<>>]
           /\ IF /\ r.products = <<>>
                 /\ response_data[1].shape = "search"
                 /\ response_data[1].productsKind = "list"
              THEN endedBy' = "empty" /\ pc' = "return"
              ELSE endedBy' = endedBy /\ pc' = "accept"
    /\ response_data' = None
    /\ UNCHANGED <<config, status, page, start, scraped_products, results,
                   requests, params,
                   identity, calls, sent_headers, other,
                   aside>>

ExtractNoEmptyStop ==
    /\ pc = "extract"
    /\ LET r == ExtractProductsFromResponse(response_data[1],
                    excluded_product_ids, search_id)
       IN  /\ new_products' = r.products
           /\ excluded_product_ids' = r.excluded
           /\ search_id' = r.search_id
           /\ upstream' = [upstream EXCEPT
                             !.products = @ \o r.products,
                             !.empty = @ \/ r.products = <<>>]
    /\ pc' = "accept"
    /\ response_data' = None
    /\ UNCHANGED <<config, status, page, start, scraped_products, results,
                   requests, params, endedBy,
                   identity, calls, sent_headers, other,
                   aside>>

(* _extract_products_from_response and the "if not new_products" *)
Extract ==
    /\ pc = "extract"
    /\ LET r == ExtractProductsFromResponse(response_data[1],
                    excluded_product_ids, search_id)
       IN  /\ new_products' = r.products
           /\ excluded_product_ids' = r.excluded
           /\ search_id' = r.search_id
           /\ upstream' = [upstream EXCEPT
                             !.products = @ \o r.products,
                             !.empty = @ \/ r.products = <<>>]
           /\ IF r.products = <<>>
              THEN endedBy' = "empty" /\ pc' = "return"
              ELSE endedBy' = endedBy /\ pc' = "accept"
    /\ response_data' = None    \* not read again
    /\ UNCHANGED <<config, status, page, start, scraped_products, results,
                   requests, params,
                   identity, calls, sent_headers, other,
                   aside>>

(* the exclusion list cut back to the identifiers of the records kept *)
RECURSIVE KeptIds(_, _)
KeptIds(excluded, kept) ==
    IF excluded = <<>> THEN <<>>
    ELSE IF Head(excluded) \in kept
    THEN <<Head(excluded)>> \o KeptIds(Tail(excluded), kept)
    ELSE KeptIds(Tail(excluded), kept)

AcceptTrimsExclusion ==
    /\ pc = "accept"
    /\ scraped_products' =
           AddProducts(scraped_products, new_products, config.max_products)
    /\ excluded_product_ids' =
           KeptIds(excluded_product_ids,
                   {scraped_products'[i].ProductID :
                       i \in DOMAIN scraped_products'})
    /\ page' = page + 1
    /\ start' = start + 60
    /\ new_products' = <<>>
    /\ pc' = "check"
    /\ UNCHANGED <<config, status, search_id,
                   response_data, results, requests, params, upstream,
                   endedBy,
                   identity, calls, sent_headers, other,
                   aside>>

AcceptAdvanceByYield ==
    /\ pc = "accept"
    /\ scraped_products' =
           AddProducts(scraped_products, new_products, config.max_products)
    /\ page' = page + 1
    /\ start' = start + Len(new_products)
    /\ new_products' = <<>>
    /\ pc' = "check"
    /\ UNCHANGED <<config, status, excluded_product_ids, search_id,
                   response_data, results, requests, params, upstream,
                   endedBy,
                   identity, calls, sent_headers, other,
                   aside>>

AcceptNoAdvance ==
    /\ pc = "accept"
    /\ scraped_products' = scraped_products
    /\ new_products' = <<>>
    /\ pc' = "check"
    /\ UNCHANGED <<config, status, page, start, excluded_product_ids,
                   search_id, response_data, results, requests, params,
                   upstream, endedBy,
                   identity, calls, sent_headers, other,
                   aside>>

(* "Add products to collection" and "Prepare for next page" *)
Accept ==
    /\ pc = "accept"
    /\ scraped_products' =
           AddProducts(scraped_products, new_products, config.max_products)
    /\ page' = page + 1
    /\ start' = start + 60
    /\ new_products' = <<>>     \* not read again
    /\ pc' = "check"
    /\ UNCHANGED <<config, status, excluded_product_ids, search_id,
                   response_data, results, requests, params, upstream,
                   endedBy,
                   identity, calls, sent_headers, other,
                   aside>>

ReturnNothingOnFailure ==
    /\ pc = "return"
    /\ results' = IF endedBy = "failure" THEN Some(<<>>)
                  ELSE Some(scraped_products)
    /\ pc' = "save"
    /\ UNCHANGED <<config, status, page, start, scraped_products,
                   excluded_product_ids, search_id, response_data,
                   new_products, requests, params, upstream, endedBy,
                   identity, calls, sent_headers, other,
                   aside>>

(* the return of scrape_products *)
Return ==
    /\ pc = "return"
    /\ results' = Some(scraped_products)
    /\ pc' = "save"
    /\ UNCHANGED <<config, status, page, start, scraped_products,
                   excluded_product_ids, search_id, response_data,
                   new_products, requests, params, upstream, endedBy,
                   identity, calls, sent_headers, other,
                   aside>>

(* run_scraper_job after scrape_products returned *)
SaveResults ==
    /\ pc = "save"
    /\ status' = "completed"
    /\ pc' = "finished"
    /\ UNCHANGED <<config, page, start, scraped_products,
                   excluded_product_ids, search_id, response_data,
                   new_products, results, requests, params, upstream,
                   endedBy,
                   identity, calls, sent_headers, other,
                   aside>>

Next ==
    \/ RunScraperJob
    \/ StopCheck
    \/ Request
    \/ Extract
    \/ Accept
    \/ Return
    \/ SaveResults

Spec == Init /\ [][Next]_vars

(* the single-threaded run always takes its next step *)
FairSpec == Spec /\ WF_vars(Next)

InterruptPropagates ==
    /\ pc \in {"check", "request", "extract", "accept"}
    /\ endedBy' = "interrupt"
    /\ pc' = "finished"
    /\ status' = "failed"
    /\ UNCHANGED <<config, page, start, scraped_products,
                   excluded_product_ids, search_id, response_data,
                   new_products, results, requests, params, upstream,
                   identity, calls, sent_headers, other,
                   aside>>

(* KeyboardInterrupt, or an exception nothing below catches, raised at any *)
(* statement of the while loop: the handlers after the loop print and fall *)
(* through to the return.  Raised inside the extraction or inside the loop *)
(* that adds the page, it leaves what the statements before it did         *)
Interrupt ==
    /\ pc \in {"check", "request", "extract", "accept"}
    /\ endedBy' = "interrupt"
    /\ pc' = "return"
    /\ IF pc = "extract"
       THEN \E k \in 0..Len(response_data[1].products) :
               LET seen == [response_data[1] EXCEPT
                               !.products = SubSeq(@, 1, k)]
                   r == ExtractProductsFromResponse(seen,
                            excluded_product_ids, search_id)
               IN  /\ excluded_product_ids' = r.excluded
                   /\ search_id' = r.search_id
                   /\ UNCHANGED scraped_products
       ELSE IF pc = "accept"
       THEN /\ \E k \in 0..Len(new_products) :
                 scraped_products' =
                     AddProducts(scraped_products, SubSeq(new_products, 1, k),
                                 config.max_products)
            /\ UNCHANGED <<excluded_product_ids, search_id>>
       ELSE UNCHANGED <<scraped_products, excluded_product_ids, search_id>>
    /\ UNCHANGED <<config, status, page, start, response_data,
                   new_products, results, requests, params, upstream,
                   identity, calls, sent_headers, other,
                   aside>>

InterruptNext == Next \/ Interrupt

InterruptSpec == Init /\ [][InterruptNext]_vars

(* a caller calls scrape_products again on the scraper it holds *)
ScrapeAgain ==
    /\ pc = "finished"
    /\ calls < MaxCalls
    /\ calls' = calls + 1
    /\ page' = 1
    /\ start' = 0
    /\ response_data' = None
    /\ new_products' = <<>>
    /\ results' = None
    /\ endedBy' = "none"
    /\ pc' = "check"
    /\ UNCHANGED <<config, status, scraped_products, excluded_product_ids,
                   search_id, requests, params, upstream, identity,
                   sent_headers, other, aside>>

RerunNext ==
    \/ Next
    \/ ScrapeAgain

RerunSpec == Init /\ [][RerunNext]_vars

(* the variables of the job that is running *)
Frame ==
    [config |-> config, status |-> status, pc |-> pc, page |-> page,
     start |-> start, scraped_products |-> scraped_products,
     excluded_product_ids |-> excluded_product_ids, search_id |-> search_id,
     response_data |-> response_data, new_products |-> new_products,
     results |-> results, requests |-> requests, params |-> params,
     upstream |-> upstream, endedBy |-> endedBy, scraper |-> scraper,
     device_id |-> device_id, user_id |-> user_id, unique_id |-> unique_id,
     headers |-> headers, calls |-> calls, sent_headers |-> sent_headers]

(* the other job gets to run *)
Switch ==
    /\ other.pc # "none"
    /\ config' = other.config
    /\ status' = other.status
    /\ pc' = other.pc
    /\ page' = other.page
    /\ start' = other.start
    /\ scraped_products' = other.scraped_products
    /\ excluded_product_ids' = other.excluded_product_ids
    /\ search_id' = other.search_id
    /\ response_data' = other.response_data
    /\ new_products' = other.new_products
    /\ results' = other.results
    /\ requests' = other.requests
    /\ params' = other.params
    /\ upstream' = other.upstream
    /\ endedBy' = other.endedBy
    /\ scraper' = other.scraper
    /\ device_id' = other.device_id
    /\ user_id' = other.user_id
    /\ unique_id' = other.unique_id
    /\ headers' = other.headers
    /\ calls' = other.calls
    /\ sent_headers' = other.sent_headers
    /\ other' = Frame
    /\ UNCHANGED aside

OnePage == [max_products |-> None, max_pages |-> Some(1)]

(* two jobs created by create_job, neither started *)
JobsInit ==
    /\ config = OnePage
    /\ InitScraper
    /\ other = Frame
    /\ Aside

JobsNext ==
    \/ Next
    \/ Switch

JobsSpec == JobsInit /\ [][JobsNext]_vars

NoCaps == [max_products |-> None, max_pages |-> None]

(* the scraper object exists and scrape_products was called on it once *)
Created(id) ==
    /\ scraper = 1
    /\ device_id = id.device_id
    /\ user_id = id.user_id
    /\ unique_id = id.unique_id
    /\ headers = SessionHeaders(id)
    /\ calls = 1

(* _make_graphql_request called with any page and start on a scraper whose *)
(* exclusion list and search_id hold anything                              *)
ParamsInit ==
    /\ config = NoCaps
    /\ status = "running"
    /\ pc = "request"
    /\ page \in 1..MaxFetch
    /\ start \in {60 * k : k \in 0..MaxFetch}
    /\ scraped_products = <<>>
    /\ excluded_product_ids \in SeqsUpTo({StrInt(i) : i \in Ids}, MaxEntries)
    /\ search_id \in {None, Some(<<>>), Some(S1)}
    /\ response_data = None
    /\ new_products = <<>>
    /\ results = None
    /\ requests = 0
    /\ params = <<>>
    /\ upstream = NoUpstream
    /\ endedBy = "none"
    /\ \E id \in Identities : Created(id)
    /\ sent_headers = <<>>
    /\ other = NoJob
    /\ Aside

ParamsSpec == ParamsInit /\ [][Request]_vars

(* the pages the response normalizer is given: any short list of entries  *)
(* with or without a title or a value that makes the mapping raise, and   *)
(* one entry with any of its other fields absent                          *)
NormalizerPages ==
    SeqsUpTo(TitleProducts \cup RaisingProducts, MaxPageLen) \cup
    {<<p>> : p \in PartialProducts \cup UrlProducts}

(* scrape_products after its first POST was answered with such a page *)
NormalizerInit ==
    /\ config = NoCaps
    /\ status = "running"
    /\ pc = "extract"
    /\ page = 1
    /\ start = 0
    /\ scraped_products = <<>>
    /\ excluded_product_ids = <<>>
    /\ search_id = None
    /\ \E ps \in NormalizerPages :
         /\ response_data = Some(Data("search", "absent", <<>>, "list", ps))
         /\ upstream = [NoUpstream EXCEPT !.ids = IdsOf(ps),
                                          !.formatted = FormattedIdsOf(ps)]
    /\ new_products = <<>>
    /\ results = None
    /\ requests = 1
    /\ \E id \in Identities : Created(id)
    /\ params = BuildSearchParams(1, 0, <<>>, None, unique_id, user_id)
    /\ sent_headers = headers
    /\ endedBy = "none"
    /\ other = NoJob
    /\ Aside

NormalizerNext ==
    \/ Extract
    \/ Accept
    \/ StopCheck

NormalizerSpec == NormalizerInit /\ [][NormalizerNext]_vars

(* the configs the command line gives with --max-products 0 or --max-pages *)
(* 0: argparse takes any int, and a cap left out is None                   *)
ZeroCapConfigs ==
    {c \in [max_products : {None, Some(0), Some(1)},
            max_pages : {None, Some(0), Some(1)}] :
        Some(0) \in {c.max_products, c.max_pages}}

ZeroCapInit == config \in ZeroCapConfigs /\ InitScraper /\ other = NoJob /\ Aside

ZeroCapSpec == ZeroCapInit /\ [][Next]_vars

(* the rest of the program at rest while one of its parts is called alone *)
AtRest == config = NoCaps /\ InitScraper /\ other = NoJob

(* translator.translate(text) called once on any text *)
TranslatorInit ==
    /\ AtRest
    /\ source_text \in Texts
    /\ translated = None
    /\ price_str = <<>>
    /\ csv_price = None
    /\ job_dirs = {}
    /\ metadata = [j \in JobIds |-> NoFile]
    /\ results_json = [j \in JobIds |-> NoFile]
    /\ background = {}
    /\ uuids = 0
    /\ reply = NoReply
    /\ Idle

Translate ==
    /\ translated = None
    /\ translated' = Some(translate(source_text))
    /\ UNCHANGED <<config, status, pc, page, start, scraped_products,
                   excluded_product_ids, search_id, response_data,
                   new_products, results, requests, params, upstream,
                   endedBy, identity, calls, sent_headers, other,
                   source_text, price_str, csv_price, job_dirs, metadata, results_json,
                   background, uuids, reply, rest>>

TranslatorSpec == TranslatorInit /\ [][Translate]_vars

(* _extract_price(price_str) called once on any price string *)
PriceInit ==
    /\ AtRest
    /\ source_text = <<>>
    /\ translated = None
    /\ price_str \in PriceStrings
    /\ csv_price = None
    /\ job_dirs = {}
    /\ metadata = [j \in JobIds |-> NoFile]
    /\ results_json = [j \in JobIds |-> NoFile]
    /\ background = {}
    /\ uuids = 0
    /\ reply = NoReply
    /\ Idle

ExtractPriceCall ==
    /\ csv_price = None
    /\ csv_price' = Some(ExtractPrice(price_str))
    /\ UNCHANGED <<config, status, pc, page, start, scraped_products,
                   excluded_product_ids, search_id, response_data,
                   new_products, results, requests, params, upstream,
                   endedBy, identity, calls, sent_headers, other,
                   source_text, translated, price_str, job_dirs, metadata,
                   results_json, background, uuids, reply, rest>>

PriceSpec == PriceInit /\ [][ExtractPriceCall]_vars

-----------------------------------------------------------------------------
(* The job service: the handlers of api/main.py on the results directory *)

(* the limits the handlers declare for their query parameters *)
DefaultMaxProducts == 100
MaxProductsLimit == 1000
PagesLimit == 50
DefaultResultsPageSize == 100
ResultsPageSizeLimit == 1000
DefaultListPageSize == 20
ListPageSizeLimit == 100

Max(a, b) == IF a > b THEN a ELSE b
Min(a, b) == IF a < b THEN a ELSE b

(* s[a:b] for 0 <= a <= b *)
Slice(s, a, b) == SubSeq(s, a + 1, Min(b, Len(s)))

PaginateFromPage(items, page_no, page_size) ==
    LET start_idx == page_no * page_size
        end_idx == start_idx + page_size
    IN  Slice(items, start_idx, end_idx)

(* "Paginate" of get_job_results and list_jobs *)
Paginate(items, page_no, page_size) ==
    LET start_idx == (page_no - 1) * page_size
        end_idx == start_idx + page_size
    IN  Slice(items, start_idx, end_idx)

TotalPages(total_items, page_size) ==
    Max(1, (total_items + page_size - 1) \div page_size)

store == <<job_dirs, metadata, results_json, background, uuids>>

engine ==
    <<config, status, pc, page, start, scraped_products,
      excluded_product_ids, search_id, response_data, new_products, results,
      requests, params, upstream, endedBy, identity, calls, sent_headers,
      other>>

tools == <<source_text, translated, price_str, csv_price, rest>>

(* job_metadata.json: the fields the handlers decide on.  created_at is the *)
(* time of JobMetadata.create, which orders the jobs as their ids do        *)
Metadata(job_status, created_at) ==
    [status |-> job_status, created_at |-> created_at,
     started_at |-> None, completed_at |-> None]

(* the statuses update_status stamps completed_at for *)
Terminal == {"completed", "failed", "cancelled"}

UpdateStatusNoStamp(job_metadata, job_status) ==
    [job_metadata EXCEPT !.status = job_status]

(* JobMetadata.update_status; "utcnow" is datetime.utcnow().isoformat(), a *)
(* reading of the clock                                                    *)
UpdateStatus(job_metadata, job_status) ==
    [job_metadata EXCEPT
        !.status = job_status,
        !.started_at = IF job_status = "running" /\ @ = None
                       THEN Some("utcnow") ELSE @,
        !.completed_at = IF job_status \in Terminal
                         THEN Some("utcnow") ELSE @]

(* the metadata run_scraper_job saves, in the order of its two saves: at  *)
(* its start, and in its finally after the results were written or the   *)
(* write raised                                                          *)
RunScraperJobSaves(job_metadata, written) ==
    LET running == UpdateStatus(job_metadata, "running")
    IN  <<running,
          UpdateStatus(running, IF written THEN "completed" ELSE "failed")>>

(* json/results.json *)
File(items) == [status |-> "file", items |-> items]

Exists(file) == file.status # "nofile"

(* an HTTP request and the response to it *)
Reply(op, request, status_code, body) ==
    [op |-> op, request |-> request, status_code |-> status_code,
     body |-> body]

ValidationError == [detail |-> "validation"]
NotFound == [detail |-> "not found"]

(* a query parameter is left out, at or beside a limit, or a small number *)
Given(ns) == {None} \cup {Some(n) : n \in ns}

CreateRequests ==
    [query : {None, Some(<<"k">>)},
     max_products : Given({0, 1, MaxProductsLimit, MaxProductsLimit + 1}),
     pages : Given({0, 1, PagesLimit, PagesLimit + 1})]

PageNumbers == Given(0..MaxPage)

PageSizes(limit) == Given((0..MaxPageSize) \cup {limit, limit + 1})

ResultsRequests ==
    [job_id : JobIds, page : PageNumbers,
     page_size : PageSizes(ResultsPageSizeLimit)]

ListRequests ==
    [status : {None, Some("completed")},
     page : PageNumbers, page_size : PageSizes(ListPageSizeLimit)]

PlainResultsRequests ==
    [job_id : JobIds, page : {None, Some(0)}, page_size : {None}]

PlainListRequests ==
    [status : {None, Some("completed")}, page : {None},
     page_size : {None, Some(0)}]

(* what scrape_products may return to run_scraper_job *)
ProductLists == {[i \in 1..n |-> i] : n \in 0..MaxItems}

OrDefault(opt, default) == IF opt = None THEN default ELSE opt[1]

ValidCreateNoUpperLimit(req) ==
    /\ req.query # None
    /\ OrDefault(req.max_products, DefaultMaxProducts) >= 1
    /\ req.pages = None \/ req.pages[1] >= 1

(* the validation FastAPI does from the declarations of create_job *)
ValidCreate(req) ==
    /\ req.query # None
    /\ OrDefault(req.max_products, DefaultMaxProducts) \in 1..MaxProductsLimit
    /\ req.pages = None \/ req.pages[1] \in 1..PagesLimit

CreateJobUnsaved(req) ==
    /\ IF ~ValidCreate(req)
       THEN /\ reply' = Reply("create_job", req, 422, ValidationError)
            /\ UNCHANGED store
       ELSE /\ uuids < MaxJobs
            /\ LET job_id == uuids + 1
               IN  /\ uuids' = job_id
                   /\ job_dirs' = job_dirs \cup {job_id}
                   /\ background' = background \cup {job_id}
                   /\ reply' = Reply("create_job", req, 200,
                                     [job_id |-> job_id, status |-> "pending"])
            /\ UNCHANGED <<metadata, results_json>>
    /\ UNCHANGED <<engine, tools>>

(* POST /api/v1/jobs *)
CreateJob(req) ==
    /\ IF ~ValidCreate(req)
       THEN /\ reply' = Reply("create_job", req, 422, ValidationError)
            /\ UNCHANGED store
       ELSE /\ uuids < MaxJobs
            /\ LET job_id == uuids + 1
                   job_metadata == Metadata("pending", job_id)
               IN  /\ uuids' = job_id
                   /\ job_dirs' = job_dirs \cup {job_id}
                   /\ metadata' = [metadata EXCEPT ![job_id] = job_metadata]
                   /\ background' = background \cup {job_id}
                   /\ reply' = Reply("create_job", req, 200,
                                     [job_id |-> job_id,
                                      status |-> job_metadata.status])
            /\ UNCHANGED results_json
    /\ UNCHANGED <<engine, tools>>

(* run_scraper_job as the service sees it: it has no await, so no handler  *)
(* runs between its first and its last statement.  Its first save makes    *)
(* the job directory again when the job was deleted, but not json/, and    *)
(* the write of results.json then fails                                    *)
BackgroundRun(job_id, products) ==
    LET written == job_id \in job_dirs
        saves == RunScraperJobSaves(Metadata("pending", job_id), written)
    IN  /\ job_id \in background
        /\ background' = background \ {job_id}
        /\ job_dirs' = job_dirs \cup {job_id}
        /\ metadata' = [metadata EXCEPT ![job_id] = saves[Len(saves)]]
        /\ results_json' = IF written
                           THEN [results_json EXCEPT
                                    ![job_id] = File(products)]
                           ELSE results_json
        /\ UNCHANGED <<uuids, reply, engine, tools>>

(* GET /api/v1/jobs/{job_id} *)
GetJobStatus(job_id) ==
    /\ reply' =
           IF ~Exists(metadata[job_id])
           THEN Reply("get_job_status", [job_id |-> job_id], 404, NotFound)
           ELSE Reply("get_job_status", [job_id |-> job_id], 200,
                      [job_id |-> job_id, status |-> metadata[job_id].status])
    /\ UNCHANGED <<store, engine, tools>>

(* GET /api/v1/jobs/{job_id}/results *)
GetJobResults(req) ==
    LET page_no == OrDefault(req.page, 1)
        page_size == OrDefault(req.page_size, DefaultResultsPageSize)
        all_items == IF Exists(results_json[req.job_id])
                     THEN results_json[req.job_id].items
                     ELSE <<>>
    IN  /\ reply' =
               IF page_no < 1 \/ page_size \notin 1..ResultsPageSizeLimit
               THEN Reply("get_job_results", req, 422, ValidationError)
               ELSE IF ~Exists(metadata[req.job_id])
               THEN Reply("get_job_results", req, 404, NotFound)
               ELSE Reply("get_job_results", req, 200,
                          [job_id |-> req.job_id,
                           status |-> metadata[req.job_id].status,
                           total_items |-> Len(all_items),
                           page |-> page_no,
                           page_size |-> page_size,
                           total_pages |-> TotalPages(Len(all_items), page_size),
                           items |-> Paginate(all_items, page_no, page_size)])
        /\ UNCHANGED <<store, engine, tools>>

(* jobs.sort(key=created_at, reverse=True) *)
RECURSIVE SortedByCreatedAt(_)
SortedByCreatedAt(ids) ==
    IF ids = {} THEN <<>>
    ELSE LET newest == CHOOSE j \in ids : \A k \in ids :
                           metadata[k].created_at <= metadata[j].created_at
         IN  <<newest>> \o SortedByCreatedAt(ids \ {newest})

(* the jobs list_jobs has before it paginates *)
ListedJobs(status_filter) ==
    LET listed == {j \in job_dirs :
                     /\ Exists(metadata[j])
                     /\ status_filter = None
                        \/ metadata[j].status = status_filter[1]}
        sorted == SortedByCreatedAt(listed)
    IN  [i \in DOMAIN sorted |->
            [job_id |-> sorted[i], status |-> metadata[sorted[i]].status]]

(* GET /api/v1/jobs *)
ListJobs(req) ==
    LET page_no == OrDefault(req.page, 1)
        page_size == OrDefault(req.page_size, DefaultListPageSize)
        jobs == ListedJobs(req.status)
    IN  /\ reply' =
               IF page_no < 1 \/ page_size \notin 1..ListPageSizeLimit
               THEN Reply("list_jobs", req, 422, ValidationError)
               ELSE Reply("list_jobs", req, 200,
                          [total_jobs |-> Len(jobs),
                           page |-> page_no,
                           page_size |-> page_size,
                           total_pages |-> TotalPages(Len(jobs), page_size),
                           jobs |-> Paginate(jobs, page_no, page_size)])
        /\ UNCHANGED <<store, engine, tools>>

DeleteJobUnchecked(job_id) ==
    /\ job_dirs' = job_dirs \ {job_id}
    /\ metadata' = [metadata EXCEPT ![job_id] = NoFile]
    /\ results_json' = [results_json EXCEPT ![job_id] = NoFile]
    /\ reply' = Reply("delete_job", [job_id |-> job_id], 200,
                      [message |-> "deleted"])
    /\ UNCHANGED <<background, uuids, engine, tools>>

(* DELETE /api/v1/jobs/{job_id} *)
DeleteJob(job_id) ==
    /\ IF job_id \notin job_dirs
       THEN /\ reply' = Reply("delete_job", [job_id |-> job_id], 404,
                              NotFound)
            /\ UNCHANGED <<job_dirs, metadata, results_json>>
       ELSE /\ job_dirs' = job_dirs \ {job_id}
            /\ metadata' = [metadata EXCEPT ![job_id] = NoFile]
            /\ results_json' = [results_json EXCEPT ![job_id] = NoFile]
            /\ reply' = Reply("delete_job", [job_id |-> job_id], 200,
                              [message |-> "deleted"])
    /\ UNCHANGED <<background, uuids, engine, tools>>

ApiInit == AtRest /\ Aside

(* the service from its start: jobs are created, run, read and deleted in *)
(* any order; results and lists are asked for with the default page and   *)
(* with a page or a page size that is refused                             *)
ApiNext ==
    \/ \E req \in CreateRequests : CreateJob(req)
    \/ \E job_id \in JobIds, products \in ProductLists :
           BackgroundRun(job_id, products)
    \/ \E job_id \in JobIds : GetJobStatus(job_id)
    \/ \E req \in PlainResultsRequests : GetJobResults(req)
    \/ \E req \in PlainListRequests : ListJobs(req)
    \/ \E job_id \in JobIds : DeleteJob(job_id)

ApiSpec == ApiInit /\ [][ApiNext]_vars

(* a store the service has built: jobs 1..k were created, some of them   *)
(* have run and hold a results file, the others wait                     *)
PaginationInit ==
    /\ AtRest
    /\ source_text = <<>>
    /\ translated = None
    /\ price_str = <<>>
    /\ csv_price = None
    /\ reply = NoReply
    /\ Idle
    /\ \E k \in 0..MaxJobs, products \in ProductLists :
         \E done \in SUBSET (1..k) :
           /\ uuids = k
           /\ job_dirs = 1..k
           /\ background = (1..k) \ done
           /\ metadata =
                  [j \in JobIds |->
                      IF j \in done
                      THEN RunScraperJobSaves(Metadata("pending", j), TRUE)[2]
                      ELSE IF j \in 1..k THEN Metadata("pending", j)
                      ELSE NoFile]
           /\ results_json =
                  [j \in JobIds |-> IF j \in done THEN File(products)
                                    ELSE NoFile]

(* the two paginating handlers asked for any page of any size *)
PaginationNext ==
    \/ \E req \in ResultsRequests : GetJobResults(req)
    \/ \E req \in ListRequests : ListJobs(req)

PaginationSpec == PaginationInit /\ [][PaginationNext]_vars

-----------------------------------------------------------------------------
(* The in-memory job service: JobManager and the handlers of api_service.py *)

JobInfo(job_status, result_count) ==
    [status |-> job_status, result_count |-> result_count]

(* JobManager.update_job_status *)
UpdateJobStatus(jobs, job_id, job_status, result_count) ==
    IF jobs[job_id] # None
    THEN [jobs EXCEPT ![job_id] =
             Some(JobInfo(job_status,
                          IF result_count # None THEN result_count
                          ELSE @[1].result_count))]
    ELSE jobs

(* POST /scrape/search: the task is made and stored before it first runs *)
StartScrapeJob ==
    /\ uuids < MaxJobs
    /\ LET job_id == uuids + 1
       IN  /\ uuids' = job_id
           /\ job_manager' =
                  [job_manager EXCEPT
                      !.jobs[job_id] = Some(JobInfo("pending", None)),
                      !.active_tasks = @ \cup {job_id}]
           /\ event_loop' = event_loop \cup {job_id}
           /\ reply' = Reply("start_scrape_job", <<>>, 200,
                             [job_id |-> job_id, status |-> "pending"])
    /\ UNCHANGED <<engine, source_text, translated, price_str, csv_price,
                   job_dirs, metadata, results_json, background,
                   search_request, search_query>>

(* the task of execute_scraping_job run by the event loop.  The coroutine  *)
(* has no await: from its first statement to its finally no handler runs.  *)
(* scrape_products returns a list, or something before it raises          *)
ExecuteScrapingJob(job_id, raised, products) ==
    /\ job_id \in event_loop
    /\ raised => products = <<>>
    /\ event_loop' = event_loop \ {job_id}
    /\ LET running == UpdateJobStatus(job_manager.jobs, job_id, "running",
                                      None)
       IN  job_manager' =
               [jobs |-> IF raised
                         THEN UpdateJobStatus(running, job_id, "failed", None)
                         ELSE UpdateJobStatus(running, job_id, "completed",
                                              Some(Len(products))),
                results |-> IF raised THEN job_manager.results
                            ELSE [job_manager.results EXCEPT
                                     ![job_id] = Some(products)],
                active_tasks |-> job_manager.active_tasks \ {job_id}]
    /\ UNCHANGED <<engine, source_text, translated, price_str, csv_price,
                   job_dirs, metadata, results_json, background, uuids,
                   reply, search_request, search_query>>

GetJobResultsAnyStatus(job_id) ==
    LET job == job_manager.jobs[job_id]
        stored == job_manager.results[job_id]
        request == [job_id |-> job_id]
    IN  /\ reply' =
               IF job = None
               THEN Reply("service_get_job_results", request, 404, NotFound)
               ELSE IF stored = None
               THEN Reply("service_get_job_results", request, 404,
                          [detail |-> "results not found"])
               ELSE Reply("service_get_job_results", request, 200,
                          [job_id |-> job_id,
                           status |-> job[1].status,
                           result_count |-> Len(stored[1]),
                           results |-> stored[1]])
        /\ UNCHANGED <<engine, source_text, translated, price_str, csv_price,
                       store, rest>>

(* GET /scrape/results/{job_id} of api_service.py *)
GetJobResultsInMemory(job_id) ==
    LET job == job_manager.jobs[job_id]
        stored == job_manager.results[job_id]
        request == [job_id |-> job_id]
    IN  /\ reply' =
               IF job = None
               THEN Reply("service_get_job_results", request, 404, NotFound)
               ELSE IF job[1].status # "completed"
               THEN Reply("service_get_job_results", request, 400,
                          [detail |-> "not completed"])
               ELSE IF stored = None
               THEN Reply("service_get_job_results", request, 404,
                          [detail |-> "results not found"])
               ELSE Reply("service_get_job_results", request, 200,
                          [job_id |-> job_id,
                           status |-> job[1].status,
                           result_count |-> Len(stored[1]),
                           results |-> stored[1]])
        /\ UNCHANGED <<engine, source_text, translated, price_str, csv_price,
                       store, rest>>

DeleteJobInMemoryNoCancel(job_id) ==
    LET deleted == job_manager.jobs[job_id] # None
    IN  /\ job_manager' =
               [jobs |-> [job_manager.jobs EXCEPT ![job_id] = None],
                results |-> [job_manager.results EXCEPT ![job_id] = None],
                active_tasks |-> job_manager.active_tasks \ {job_id}]
        /\ event_loop' = event_loop
        /\ reply' =
               IF deleted
               THEN Reply("service_delete_job", [job_id |-> job_id], 200,
                          [message |-> "deleted"])
               ELSE Reply("service_delete_job", [job_id |-> job_id], 404,
                          NotFound)
        /\ UNCHANGED <<engine, source_text, translated, price_str, csv_price,
                       store, search_request, search_query>>

(* DELETE /scrape/jobs/{job_id} of api_service.py with JobManager.delete_job: *)
(* a task cancelled before it first runs never runs its body                *)
DeleteJobInMemory(job_id) ==
    LET deleted == job_manager.jobs[job_id] # None
        active == deleted /\ job_id \in job_manager.active_tasks
    IN  /\ job_manager' =
               [jobs |-> [job_manager.jobs EXCEPT ![job_id] = None],
                results |-> [job_manager.results EXCEPT ![job_id] = None],
                active_tasks |-> IF active
                                 THEN job_manager.active_tasks \ {job_id}
                                 ELSE job_manager.active_tasks]
        /\ event_loop' = IF active THEN event_loop \ {job_id} ELSE event_loop
        /\ reply' =
               IF deleted
               THEN Reply("service_delete_job", [job_id |-> job_id], 200,
                          [message |-> "deleted"])
               ELSE Reply("service_delete_job", [job_id |-> job_id], 404,
                          NotFound)
        /\ UNCHANGED <<engine, source_text, translated, price_str, csv_price,
                       store, search_request, search_query>>

ServiceInit == AtRest /\ Aside

(* the in-memory service from its start: jobs are started, run by the *)
(* event loop, asked for and deleted in any order                     *)
ServiceNext ==
    \/ StartScrapeJob
    \/ \E job_id \in JobIds, raised \in BOOLEAN, products \in ProductLists :
           ExecuteScrapingJob(job_id, raised, products)
    \/ \E job_id \in JobIds : GetJobResultsInMemory(job_id)
    \/ \E job_id \in JobIds : DeleteJobInMemory(job_id)

ServiceSpec == ServiceInit /\ [][ServiceNext]_vars

-----------------------------------------------------------------------------
(* The search query of a run *)

(* the keyword and brand a caller puts in the config: main, run_scraper_job *)
(* and execute_scraping_job all set both keys, the brand to the text given  *)
(* or, in the two services, to None when the request has no brand           *)
SearchRequests ==
    [keyword : SeqsUpTo({"k", " "}, MaxQueryLen),
     brand : {Null} \cup {Text(b) : b \in SeqsUpTo({"b", " "}, MaxQueryLen - 1)}]

(* "Build search query" of scrape_products: f"{brand} {keyword}".strip() *)
SearchQuery(request) ==
    Strip(PyStr(Get(request.brand, Text(<<>>))) \o <<" ">> \o request.keyword)

QueryInit ==
    /\ AtRest
    /\ source_text = <<>>
    /\ translated = None
    /\ price_str = <<>>
    /\ csv_price = None
    /\ job_dirs = {}
    /\ metadata = [j \in JobIds |-> NoFile]
    /\ results_json = [j \in JobIds |-> NoFile]
    /\ background = {}
    /\ uuids = 0
    /\ reply = NoReply
    /\ job_manager = NoManager
    /\ event_loop = {}
    /\ search_request \in SearchRequests
    /\ search_query = None

BuildSearchQuery ==
    /\ search_query = None
    /\ search_query' = Some(SearchQuery(search_request))
    /\ UNCHANGED <<engine, source_text, translated, price_str, csv_price,
                   store, reply, job_manager, event_loop, search_request>>

QuerySpec == QueryInit /\ [][BuildSearchQuery]_vars

TypeOK ==
    /\ pc \in {"job", "check", "request", "extract", "accept", "return",
               "save", "finished"}
    /\ status \in {"pending", "running", "completed"}
    /\ endedBy \in {"none", "max_products", "max_pages", "failure", "empty"}
    /\ requests \in 0..MaxFetch

-----------------------------------------------------------------------------
(* Properties *)

RecordCap == config.max_products[1]
PageCap == config.max_pages[1]
Returned == results # None

(* C1: with a record cap M >= 1 the collection never holds more than M   *)
(* records, and when the pages extracted by the run supplied at least M  *)
(* records the run returns exactly the first M of them: the rest of the  *)
(* last page is discarded.                                               *)
C1_RecordCapExact ==
    Truthy(config.max_products) =>
        /\ Len(scraped_products) <= RecordCap
        /\ Returned => Len(results[1]) <= RecordCap
        /\ (Returned /\ Len(upstream.products) >= RecordCap) =>
               results[1] = SubSeq(upstream.products, 1, RecordCap)

C1_Witness ==
    /\ Truthy(config.max_products)
    /\ RecordCap = 3
    /\ Returned
    /\ requests = 2
    /\ Len(upstream.products) = 4
    /\ Len(results[1]) = 3

(* C2: no request is issued in a state where the accepted count has      *)
(* reached the record cap or the page index exceeds the page cap; a run  *)
(* with page cap P issues at most P requests.                            *)
C2_StopCheckBeforeFetch ==
    /\ [][requests' # requests =>
            /\ ~(Truthy(config.max_products)
                   /\ Len(scraped_products) >= RecordCap)
            /\ ~(Truthy(config.max_pages) /\ page > PageCap)]_vars
    /\ [](Truthy(config.max_pages) => requests <= PageCap)

C2_Witness ==
    /\ Truthy(config.max_products)
    /\ Truthy(config.max_pages)
    /\ PageCap = 2
    /\ requests = 1
    /\ endedBy = "max_products"
    /\ Returned

(* C3: when the fetch of page k fails the run returns, and what it       *)
(* returns is exactly the records of the pages extracted before it.      *)
C3_FailureKeepsPartialResults ==
    endedBy = "failure" =>
        /\ pc \in {"return", "save", "finished"}
        /\ scraped_products = upstream.products
        /\ Returned => results[1] = upstream.products

C3_Witness ==
    /\ endedBy = "failure"
    /\ Returned
    /\ requests = 2
    /\ Len(results[1]) = 2

(* C4: with no cap, no request follows a page that normalized to zero    *)
(* records, and the run returns exactly the records of the non-empty     *)
(* pages extracted before it.                                            *)
C4_EmptyPageEndsRun ==
    /\ [][upstream.empty => requests' = requests]_vars
    /\ []((~Capped /\ endedBy = "empty") =>
            /\ pc \in {"return", "save", "finished"}
            /\ Returned => results[1] = upstream.products)

C4_Witness ==
    /\ ~Capped
    /\ endedBy = "empty"
    /\ Returned
    /\ requests = 3
    /\ Len(results[1]) >= 2

(* C5: the job layer can tell a run ended by a transport failure from a  *)
(* run that completed normally.                                          *)
C5_OutcomeTellsFailure ==
    (pc = "finished" /\ endedBy = "failure") => status # "completed"

(* C6: a run bounded by a cap always returns; a run with no cap returns  *)
(* exactly when a page was empty or a fetch failed.                      *)
C6_Termination ==
    /\ (Capped /\ pc = "check") ~> Returned
    /\ [](~Capped /\ pc \in {"return", "save", "finished"}
            => endedBy \in {"empty", "failure"})
    /\ (~Capped /\ endedBy \in {"empty", "failure"}) ~> Returned

C6_Witness ==
    /\ Capped
    /\ Returned
    /\ endedBy = "max_products"
    /\ requests = 3

(* C7 as claimed: every identifier in the exclusion set came from a page *)
(* already received, and every identifier a page returned is in the      *)
(* exclusion set once that page is extracted.                            *)
C7_EveryReturnedIdExcluded ==
    /\ Range(excluded_product_ids) \subseteq upstream.ids
    /\ pc # "extract" => upstream.ids \subseteq Range(excluded_product_ids)

(* C7 amended: between pages the exclusion set holds exactly the         *)
(* identifiers of the entries that were normalized to a record.          *)
C7_FormattedIdsExcluded ==
    /\ Range(excluded_product_ids) \subseteq upstream.formatted
    /\ pc # "extract" =>
           upstream.formatted \subseteq Range(excluded_product_ids)

C7_Witness ==
    /\ pc = "check"
    /\ requests = 2
    /\ upstream.ids = {StrInt(1), StrInt(2)}
    /\ upstream.formatted = {StrInt(1)}
    /\ Range(excluded_product_ids) = {StrInt(1)}

(* C8: the output never contains two records with the same upstream      *)
(* identifier.                                                           *)
C8_NoDuplicateRecords ==
    \A i, j \in DOMAIN scraped_products :
        i # j => scraped_products[i].ProductID # scraped_products[j].ProductID

(* C9: the exclusion list only grows: every step keeps what it held.     *)
C9_ExclusionOnlyGrows ==
    [][IsPrefix(excluded_product_ids, excluded_product_ids')]_vars

C9_Witness ==
    /\ pc = "finished"
    /\ endedBy = "max_products"
    /\ Len(excluded_product_ids) = 4
    /\ Len(scraped_products) = 3

(* C10: once a non-empty search_id is captured it never changes; the     *)
(* first response carrying one sets it; every later request carries it.  *)
C10_SearchIdSetOnce ==
    [][/\ TruthyStr(search_id) => search_id' = search_id
       /\ (/\ pc = "extract"
           /\ ~TruthyStr(search_id)
           /\ TruthyStr(ExtractSearchId(response_data[1])))
             => search_id' = ExtractSearchId(response_data[1])
       /\ (requests' # requests /\ page > 1 /\ TruthyStr(search_id))
             => /\ "search_id" \in DOMAIN params'
                /\ params'["search_id"] = search_id[1]]_vars

C10_Witness ==
    /\ pc = "extract"
    /\ requests = 3
    /\ search_id = Some(S1)
    /\ ExtractSearchId(response_data[1]) = Some(S2)
    /\ "search_id" \in DOMAIN params
    /\ params["search_id"] = S1

(* what the upstream reads back from a quoted value *)
RECURSIVE unquote(_)
unquote(s) ==
    IF s = <<>> THEN <<>>
    ELSE IF Len(s) >= 3 /\ SubSeq(s, 1, 3) = <<"%", "2", "C">>
    THEN <<",">> \o unquote(SubSeq(s, 4, Len(s)))
    ELSE IF Len(s) >= 3 /\ SubSeq(s, 1, 3) = <<"%", "2", "0">>
    THEN <<" ">> \o unquote(SubSeq(s, 4, Len(s)))
    ELSE <<Head(s)>> \o unquote(Tail(s))

(* the list a comma-joined value stands for *)
RECURSIVE SplitComma(_, _)
SplitComma(s, cur) ==
    IF s = <<>> THEN <<cur>>
    ELSE IF Head(s) = "," THEN <<cur>> \o SplitComma(Tail(s), <<>>)
    ELSE SplitComma(Tail(s), Append(cur, Head(s)))

(* the int a decimal string stands for *)
ParseInt(s) == IF s # <<>> /\ Head(s) = "-" THEN 0 - ParseNat(Tail(s))
               ELSE ParseNat(s)

Sent(k) == unquote(params[k])
PaginationKeys ==
    {"has_more", "next_offset_organic", "next_offset_organic_ad",
     "minus_ids", "search_id"}

(* C11: the parameters sent for page 1 hold none of has_more,            *)
(* next_offset_organic, next_offset_organic_ad, minus_ids, search_id,    *)
(* whatever the scraper holds; for a page > 1 they hold has_more=true    *)
(* and both offsets = start - 60, minus_ids exactly when the exclusion   *)
(* list is non-empty (its elements, comma-joined, in order) and          *)
(* search_id exactly when the scraper holds a non-empty token.           *)
C11_ParamsByPage ==
    requests > 0 =>
        /\ page = 1 => DOMAIN params \cap PaginationKeys = {}
        /\ page > 1 =>
              /\ Sent("has_more") = <<"t", "r", "u", "e">>
              /\ ParseInt(Sent("next_offset_organic")) = start - 60
              /\ ParseInt(Sent("next_offset_organic_ad")) = start - 60
              /\ "minus_ids" \in DOMAIN params <=> excluded_product_ids # <<>>
              /\ "minus_ids" \in DOMAIN params =>
                     SplitComma(Sent("minus_ids"), <<>>) = excluded_product_ids
              /\ "search_id" \in DOMAIN params <=> TruthyStr(search_id)
              /\ "search_id" \in DOMAIN params =>
                     Sent("search_id") = search_id[1]

C11_Witness ==
    /\ requests = 1
    /\ page = 3
    /\ start = 0
    /\ Len(excluded_product_ids) = 2
    /\ search_id = Some(S1)
    /\ params["minus_ids"] # Join(<<",">>, excluded_product_ids)
    /\ Sent("next_offset_organic") = <<"-", "6", "0">>

RequestedPage == IF requests = 0 THEN 0 ELSE ParseInt(Sent("page"))
RequestedStart == IF requests = 0 THEN 0 - 60 ELSE ParseInt(Sent("start"))

(* C12: the k-th request of a run carries page = k, start = 60*(k-1) and *)
(* rows = 60; the run starts at page 1, offset 0, and accepting a page   *)
(* advances them by 1 and by 60 whatever the page yielded.               *)
C12_PageAndOffset ==
    /\ [](requests > 0 =>
            /\ RequestedPage = requests
            /\ RequestedStart = 60 * (requests - 1)
            /\ Sent("rows") = <<"6", "0">>)
    /\ []((pc = "check" /\ requests = 0) => (page = 1 /\ start = 0))
    /\ [][pc = "accept" => (page' = page + 1 /\ start' = start + 60)]_vars

C12_Witness ==
    /\ requests = 3
    /\ RequestedPage = 3
    /\ RequestedStart = 120
    /\ Len(upstream.products) = 3

(* C13: no retry: every request of a run asks for a page index above all *)
(* those asked before, and no request follows a failed request.          *)
C13_NoRetry ==
    [][/\ requests' # requests => RequestedPage' > RequestedPage
       /\ endedBy = "failure" => requests' = requests]_vars

C13_Witness ==
    /\ pc = "finished"
    /\ endedBy = "failure"
    /\ requests = 2
    /\ ~Capped

(* the raw entries of the page that is about to be normalized *)
Page == response_data[1].products

LacksTitle(p) ==
    p.name.kind \in {"absent", "null"} \/ Strip(p.name.s) = <<>>

Titled(ps) == {i \in DOMAIN ps : ~LacksTitle(ps[i])}

(* C14: every record a page normalizes to has a non-empty title, and an  *)
(* entry whose name is absent, null, empty or blank gives no record: a   *)
(* page normalizes to at most as many records as it has titled entries.  *)
C14_UntitledDropped ==
    [][pc = "extract" =>
         /\ \A i \in DOMAIN new_products' : new_products'[i].Title # <<>>
         /\ Len(new_products') <= Cardinality(Titled(Page))]_vars

Missing(container, v) == container # "dict" \/ v.kind = "absent"

StoreLink(id) == Origin \o <<"/", "s", "t", "o", "r", "e", "/">> \o id

(* the fields of record r that are the same whether "absent field gives  *)
(* an empty value" is read strictly or with the two fallbacks            *)
EmptyWhereAbsent(e, r) ==
    /\ ~e.hasOldID => r.ProductID = <<>>
    /\ e.url.kind = "absent" => r.ProductURL = <<>>
    /\ Missing(e.price, e.text) => r.SalePrice = <<>>
    /\ Missing(e.price, e.discountPercentage) => r.Discount = 0
    /\ Missing(e.shop, e.shopName) => r.StoreName = None
    /\ Missing(e.shop, e.city) => r.Location = None
    /\ Missing(e.shop, e.shopOldID) => r.StoreID = None
    /\ (Missing(e.mediaURL, e.image) /\ Missing(e.mediaURL, e.image300))
          => r.ImageURL = <<>>
    /\ e.rating.kind = "absent" => r.Rating = None

Raises(p) ==
    \/ p.price = "null"
    \/ p.shop = "null"
    \/ p.mediaURL = "null"
    \/ (p.price = "dict" /\ p.discountPercentage.kind = "null")

RECURSIVE Without(_)
Without(ps) ==
    IF ps = <<>> THEN <<>>
    ELSE IF Raises(Head(ps)) THEN Without(Tail(ps))
    ELSE <<Head(ps)>> \o Without(Tail(ps))

(* C16: an entry whose mapping raises is skipped and nothing else: the   *)
(* page normalizes to what it would without that entry, in the same      *)
(* order, no failure is recorded, and the run goes on to accept the page *)
(* when it gave a record.                                                *)
C16_FaultSkipsOneEntry ==
    [][pc = "extract" =>
         /\ new_products' = ExtractLoop(Without(Page), <<>>, <<>>).products
         /\ endedBy' # "failure"
         /\ pc' = IF new_products' = <<>> THEN "return" ELSE "accept"]_vars

C16_Witness ==
    /\ pc = "request"
    /\ page = 2
    /\ upstream.ids = {StrInt(1), StrInt(2), StrInt(4)}
    /\ Len(scraped_products) = 2
    /\ scraped_products[1].ProductID = StrInt(2)
    /\ scraped_products[2].ProductID = StrInt(1)

(* a body whose first element lacks data, data.searchProductV5, its data *)
(* or its products, or holds null at one of those levels                *)
LacksStructure(d) ==
    \/ d.shape \in {"nodata", "nulldata", "nosearch", "nullsearch"}
    \/ (d.shape = "search" /\ d.productsKind \in {"absent", "null"})

(* C17: a body that lacks the expected structure normalizes to zero      *)
(* records, the run ends there as for an empty page, issues no further   *)
(* request and returns the records accumulated before it.                *)
C17_MalformedIsEmptyPage ==
    /\ [][(pc = "extract" /\ LacksStructure(response_data[1])) =>
            /\ new_products' = <<>>
            /\ endedBy' = "empty"
            /\ pc' = "return"
            /\ scraped_products' = scraped_products]_vars
    /\ [][endedBy = "empty" =>
            /\ requests' = requests
            /\ scraped_products' = scraped_products
            /\ Returned' => results'[1] = scraped_products]_vars

C17_Witness ==
    /\ pc = "extract"
    /\ response_data[1].shape = "nulldata"
    /\ requests = 3
    /\ Len(scraped_products) = 3
    /\ ~Capped

(* C18: every call of scrape_products starts at page 1, offset 0, with   *)
(* an empty exclusion list, no search_id and no accumulated record, a    *)
(* second call on the same scraper included.                             *)
C18_RunStartsFresh ==
    [][calls' # calls =>
         /\ page' = 1
         /\ start' = 0
         /\ excluded_product_ids' = <<>>
         /\ search_id' = None
         /\ scraped_products' = <<>>]_vars

(* what a job holds came from its own scraper and its own responses *)
KeepsToItself(job) ==
    /\ Range(job.excluded_product_ids) \subseteq job.upstream.formatted
    /\ IsPrefix(job.scraped_products, job.upstream.products)
    /\ job.requests > 0 =>
          /\ job.sent_headers = job.headers
          /\ unquote(job.params["unique_id"]) = job.unique_id
          /\ unquote(job.params["user_id"]) = job.user_id

(* C19: two jobs run on two distinct scraper objects; whatever the       *)
(* interleaving, a step of one job leaves everything the other holds as  *)
(* it was, and each job's exclusion list, records and ids come from its  *)
(* own responses and its own scraper.                                    *)
C19_RunsShareNothing ==
    /\ []((scraper # 0 /\ other.scraper # 0) => scraper # other.scraper)
    /\ [](KeepsToItself(Frame) /\ KeepsToItself(other))
    /\ [][other' = other \/ (other' = Frame /\ Frame' = other)]_vars

C19_Witness ==
    /\ pc = "finished"
    /\ other.pc = "finished"
    /\ Len(scraped_products) = 2
    /\ Len(other.scraped_products) = 1
    /\ excluded_product_ids = <<StrInt(1), StrInt(2)>>
    /\ other.excluded_product_ids = <<StrInt(2)>>
    /\ device_id # other.device_id

(* C20: the ids drawn when the scraper is created never change, and      *)
(* every POST carries them: device id and user id in its headers, unique *)
(* id and user id in its parameters.                                     *)
C20_SameIdentity ==
    /\ [][scraper # 0 => identity' = identity]_vars
    /\ [](requests > 0 =>
            /\ sent_headers["bd-device-id"] = device_id
            /\ sent_headers["bd-web-id"] = device_id
            /\ sent_headers["tkpd-userid"] = user_id
            /\ Sent("unique_id") = unique_id
            /\ Sent("user_id") = user_id)

C20_Witness ==
    /\ requests = 3
    /\ pc = "extract"
    /\ device_id = <<"1", "2">>
    /\ sent_headers["bd-web-id"] = <<"1", "2">>
    /\ Sent("unique_id") = <<"a", "2">>

(* the tokens of a text that are whitespace runs or punctuation *)
SepTokens(x) ==
    SelectSeq(Tokenize(x), LAMBDA tok : IsSpace(tok[1]) \/ IsPunct(tok[1]))

NoDictionaryTerm(x) ==
    \A i \in DOMAIN Tokenize(x) : Tokenize(x)[i] \notin DOMAIN translation_map

(* C21: translate returns its argument unchanged when none of the tokens *)
(* of the argument is a dictionary key, and returns the empty string for *)
(* the empty string.                                                     *)
C21_UnmappedTextUnchanged ==
    translated # None =>
        /\ NoDictionaryTerm(source_text) => translated[1] = source_text
        /\ source_text = <<>> => translated[1] = <<>>

C21_Witness ==
    /\ translated # None
    /\ source_text = <<"K", "a", "b", ".", " ">>
    /\ translated[1] = source_text

(* C22: the whitespace-run and punctuation tokens of what translate      *)
(* returns are those of its argument, in number and in order, also when  *)
(* the argument holds dictionary terms.                                  *)
C22_SeparatorsPreserved ==
    translated # None => SepTokens(translated[1]) = SepTokens(source_text)

(* what the separator rule makes of a price string *)
SeparatorRule(s) ==
    LET kept == SelectSeq(s, LAMBDA c : IsDigit(c) \/ c \in {".", ","})
        last(c) == rfind(kept, c)
    IN  IF "," \notin Range(kept) THEN replace(kept, ".", <<>>)
        ELSE IF last(",") > last(".")
        THEN replace(replace(kept, ".", <<>>), ",", <<".">>)
        ELSE replace(kept, ",", <<>>)

HasSeparator(s) == "." \in Range(s) \/ "," \in Range(s)

(* C23: for a price string that holds a dot or a comma, the price returned *)
(* is the string stripped of everything but digits, dots and commas, with  *)
(* the dots removed when there is no comma, with the dots removed and the  *)
(* comma turned into the decimal point when the last comma comes after the *)
(* last dot, and with the commas removed otherwise: "Rp1.246.072" gives    *)
(* "1246072" and "1,246.07" gives "1246.07".                               *)
C23_SeparatorRule ==
    (csv_price # None /\ HasSeparator(price_str)) =>
        /\ ~csv_price[1].raised
        /\ csv_price[1].value = SeparatorRule(price_str)

(* C24: _extract_price raises for no price string: the empty string gives *)
(* the empty string, and a string whose cleaned form is no decimal number *)
(* gives that cleaned form.                                               *)
C24_NeverRaises ==
    csv_price # None =>
        /\ ~csv_price[1].raised
        /\ price_str = <<>> => csv_price[1].value = <<>>
        /\ ~ParsesAsFloat(PriceClean(price_str)) =>
               csv_price[1].value = PriceClean(price_str)

C24_Witness ==
    /\ csv_price # None
    /\ price_str = <<"1", ",", "2", ",", "3">>
    /\ csv_price[1] = Returns(<<"1", ".", "2", ".", "3">>)

(* a URL that upstream gave and that begins with "/" *)
Relative(u) == u.kind = "str" /\ startswith(u.s, <<"/">>)

(* that URL made absolute: the scheme for a protocol-relative URL, the site *)
(* origin for any other                                                     *)
Absolute(u) ==
    IF startswith(u, <<"/", "/">>) THEN <<"h", "t", "t", "p", "s", ":">> \o u
    ELSE Origin \o u

(* C25: in the record of an entry, a product URL, a seller URL or an image *)
(* URL that upstream gave beginning with "/" is absolute: "https:" is put  *)
(* before one that begins with "//" and the site origin before any other;  *)
(* and an entry with a seller id and no seller URL gets the seller URL     *)
(* built from the id.                                                      *)
C25_RelativeUrlsMadeAbsolute ==
    [][(pc = "extract" /\ Len(Page) = 1 /\ Page[1] \in UrlProducts) =>
         /\ Len(new_products') = 1
         /\ LET e == Page[1]
                r == new_products'[1]
            IN  /\ Relative(e.url) => r.ProductURL = Absolute(e.url.s)
                /\ Relative(e.shopUrl) =>
                       r.StoreURL = Some(Absolute(e.shopUrl.s))
                /\ Relative(e.image) => r.ImageURL = Absolute(e.image.s)
                /\ (e.shopUrl.kind = "absent" /\ e.shopOldID.kind # "absent")
                       => r.StoreURL = Some(StoreLink(PyStr(e.shopOldID)))]_vars

(* a step of a handler that answers with op, or no step at all: a        *)
(* background run removes a task and no handler does                     *)
HandlerStep(op) == reply'.op = op /\ background \subseteq background'

OutsideLimits(opt, limit) == opt # None /\ opt[1] \notin 1..limit

(* C26: create_job answers 422 to a request without a query, with a      *)
(* max_products outside 1..1000 or with a pages outside 1..50, and a     *)
(* request answered 422 creates no job: no directory, no metadata file,  *)
(* no job id, no background run.                                         *)
C26_InvalidCreateRejected ==
    /\ [][(HandlerStep("create_job")
             /\ \/ reply'.request.query = None
                \/ OutsideLimits(reply'.request.max_products, 1000)
                \/ OutsideLimits(reply'.request.pages, 50))
            => reply'.status_code = 422]_vars
    /\ [][(HandlerStep("create_job") /\ reply'.status_code = 422)
            => UNCHANGED store]_vars

C26_Witness ==
    /\ reply.op = "create_job"
    /\ reply.status_code = 422
    /\ reply.request.query # None
    /\ reply.request.max_products = Some(1001)
    /\ job_dirs = {1}
    /\ background = {1}

(* C27: a create_job that succeeds answers with a job id no job had      *)
(* before and the status "pending"; the metadata of a job is on disk     *)
(* when its background run is scheduled; and from then on get_job_status *)
(* finds the job: it answers 404 exactly when the metadata file is not   *)
(* there, and only a successful delete_job of the job removes that file. *)
C27_CreatedJobIsFound ==
    /\ [][uuids' # uuids =>
            /\ HandlerStep("create_job")
            /\ reply'.status_code = 200
            /\ reply'.body.status = "pending"
            /\ LET job_id == reply'.body.job_id
               IN  /\ job_id \notin 1..uuids
                   /\ job_id \notin job_dirs \cup background
                   /\ ~Exists(metadata[job_id])
                   /\ metadata'[job_id].status = "pending"
                   /\ job_id \in background']_vars
    /\ [][\A job_id \in background' \ background :
            Exists(metadata'[job_id])]_vars
    /\ [][HandlerStep("get_job_status") =>
            (reply'.status_code = 404
               <=> ~Exists(metadata[reply'.request.job_id]))]_vars
    /\ [][\A job_id \in JobIds :
            (Exists(metadata[job_id]) /\ ~Exists(metadata'[job_id])) =>
                /\ HandlerStep("delete_job")
                /\ reply'.request.job_id = job_id
                /\ reply'.status_code = 200]_vars

C27_Witness ==
    /\ reply.op = "get_job_status"
    /\ reply.status_code = 200
    /\ reply.request.job_id = 1
    /\ reply.body.status = "completed"
    /\ uuids = 2

(* the job has no directory and no metadata file *)
Unknown(job_id) == job_id \notin job_dirs /\ ~Exists(metadata[job_id])

(* the page and page_size of a get_job_results request pass validation *)
WellFormed(req) ==
    /\ req.page = None \/ req.page[1] >= 1
    /\ req.page_size = None \/ req.page_size[1] \in 1..1000

Ceil(n, d) == CHOOSE k \in 0..n : k * d >= n /\ (k - 1) * d < n

(* the list a paginating handler answered from, and the page it gave *)
FullList ==
    IF reply.op = "list_jobs" THEN ListedJobs(reply.request.status)
    ELSE IF Exists(results_json[reply.request.job_id])
    THEN results_json[reply.request.job_id].items
    ELSE <<>>

PageItems ==
    IF reply.op = "list_jobs" THEN reply.body.jobs ELSE reply.body.items

(* C29: list_jobs and get_job_results answer with the page and page_size *)
(* asked for (the defaults when left out), with total_pages the greater  *)
(* of 1 and ceil(n / page_size) for a list of n items, and with the      *)
(* items at positions (p-1)*page_size .. p*page_size-1 of the list:      *)
(* pages 1..total_pages written one after the other are the list, and a  *)
(* page beyond total_pages is empty.                                     *)
C29_PagesPartitionTheList ==
    (reply.op \in {"list_jobs", "get_job_results"} /\ reply.status_code = 200)
    => LET n == Len(FullList)
           p == reply.body.page
           size == reply.body.page_size
           total == reply.body.total_pages
           positions == {i \in 0..(n - 1) :
                           (p - 1) * size <= i /\ i <= p * size - 1}
       IN  /\ p = OrDefault(reply.request.page, 1)
           /\ size = OrDefault(reply.request.page_size,
                               IF reply.op = "list_jobs" THEN 20 ELSE 100)
           /\ total = Max(1, Ceil(n, size))
           /\ PageItems = [i \in 1..Cardinality(positions) |->
                              FullList[(p - 1) * size + i]]
           /\ p > total => PageItems = <<>>
           /\ Flatten([q \in 1..total |-> Paginate(FullList, q, size)])
                  = FullList

C29_Witness ==
    /\ reply.op = "get_job_results"
    /\ reply.status_code = 200
    /\ reply.body.total_items = 3
    /\ reply.body.page = 2
    /\ reply.body.page_size = 2
    /\ reply.body.total_pages = 2
    /\ reply.body.items = <<3>>

(* C30: a run whose record cap or page cap is 0 stops at its first stop  *)
(* check: it issues no request and returns the empty list.               *)
C30_ZeroCapStopsAtOnce ==
    Some(0) \in {config.max_products, config.max_pages} =>
        /\ requests = 0
        /\ Returned => results[1] = <<>>

(* the identifiers the records of a list carry *)
RecordIds(records) ==
    {records[i].ProductID : i \in DOMAIN records} \ {<<>>}

(* C31: the excluded-id list sent on a continuation request holds each   *)
(* upstream identifier at most once, whatever the pages answered.        *)
C31_ExcludedIdsSentOnce ==
    (requests > 0 /\ "minus_ids" \in DOMAIN params) =>
        LET sent == SplitComma(Sent("minus_ids"), <<>>)
        IN  \A i, j \in DOMAIN sent : i # j => sent[i] # sent[j]

(* C32 as claimed: at the end of a run every excluded identifier is the  *)
(* identifier of a record in the output; an entry the record cap         *)
(* discarded left no identifier in the exclusion list.                   *)
C32_ExcludedIdsAreInTheOutput ==
    Returned => Range(excluded_product_ids) \subseteq RecordIds(results[1])

(* C32 amended: the exclusion list holds the identifiers of the entries  *)
(* that were normalized to a record, whether the record cap kept the     *)
(* record or discarded it: its identifiers are those of the records the  *)
(* extracted pages gave, and they include those of every record in the   *)
(* output.                                                               *)
C32_ExcludedIdsAreOfNormalizedEntries ==
    /\ Range(excluded_product_ids) = RecordIds(upstream.products)
    /\ RecordIds(scraped_products) \subseteq Range(excluded_product_ids)
    /\ Returned => RecordIds(results[1]) \subseteq Range(excluded_product_ids)

C32_Witness ==
    /\ Returned
    /\ endedBy = "max_products"
    /\ requests = 1
    /\ RecordIds(results[1]) = {StrInt(1)}
    /\ excluded_product_ids = <<StrInt(1), StrInt(2)>>

(* a step of GET /scrape/results/{job_id} of the in-memory service *)
ResultsStep ==
    /\ reply'.op = "service_get_job_results"
    /\ event_loop' = event_loop
    /\ uuids' = uuids

(* C33: the in-memory service answers a request for results with 404 for *)
(* an unknown job, with 400 for a job that is pending, running, failed   *)
(* or cancelled, and with the results only for a completed job, whose    *)
(* result_count is the number of results stored for it.                  *)
C33_ResultsOnlyWhenCompleted ==
    [][ResultsStep =>
         LET job_id == reply'.request.job_id
             job == job_manager.jobs[job_id]
         IN  /\ job = None => reply'.status_code = 404
             /\ (job # None /\ job[1].status \in
                     {"pending", "running", "failed", "cancelled"})
                   => reply'.status_code = 400
             /\ (job # None /\ job[1].status = "completed") =>
                   /\ reply'.status_code = 200
                   /\ reply'.body.results = job_manager.results[job_id][1]
                   /\ reply'.body.result_count =
                          Len(job_manager.results[job_id][1])
                   /\ job[1].result_count = Some(reply'.body.result_count)
             /\ reply'.status_code = 200 =>
                   job # None /\ job[1].status = "completed"]_vars

C33_Witness ==
    /\ reply.op = "service_get_job_results"
    /\ reply.status_code = 400
    /\ reply.request.job_id = 2
    /\ job_manager.jobs[2] = Some(JobInfo("failed", None))
    /\ job_manager.jobs[1] = Some(JobInfo("completed", Some(2)))
    /\ job_manager.results[1] = Some(<<1, 2>>)

(* the entries of a page that are normalized to a record, and the k-th *)
(* of them in the order upstream gave them                             *)
Kept(raw) == {i \in DOMAIN raw : Formatted(raw[i]) # None}

NthKept(raw, k) ==
    CHOOSE i \in Kept(raw) : Cardinality({j \in Kept(raw) : j <= i}) = k

(* C34: the list a run returns is a prefix of the normalized records of  *)
(* the pages it fetched, page after page and in upstream order within a  *)
(* page; it is cut only at the record cap.                               *)
C34_OutputIsPrefixOfPages ==
    /\ [][pc = "extract" =>
            /\ upstream.products' = upstream.products \o new_products'
            /\ Len(new_products') = Cardinality(Kept(Page))
            /\ \A k \in DOMAIN new_products' :
                   new_products'[k] = Formatted(Page[NthKept(Page, k)])[1]]_vars
    /\ [](/\ IsPrefix(scraped_products, upstream.products)
          /\ Returned =>
                /\ IsPrefix(results[1], upstream.products)
                /\ results[1] # upstream.products =>
                      /\ Truthy(config.max_products)
                      /\ Len(results[1]) = RecordCap)

C34_Witness ==
    /\ Returned
    /\ requests = 2
    /\ Len(upstream.products) = 3
    /\ Len(results[1]) = 2
    /\ results[1][1].ProductID = StrInt(2)
    /\ results[1][2].ProductID = StrInt(1)
    /\ upstream.products[3].ProductID = StrInt(2)

(* C35: a request with no brand (None or empty) is searched for with the *)
(* keyword alone: nothing stands in the query for the missing brand.     *)
C35_NoBrandQueryIsKeyword ==
    (search_query # None /\ ~PyTruthy(search_request.brand)) =>
        search_query[1] = Strip(search_request.keyword)

(* C36: an interrupt or an uncaught exception inside the page loop ends  *)
(* the run without reaching the caller: no request follows it, and       *)
(* scrape_products returns the records accumulated when it was raised.   *)
C36_InterruptReturnsPartialResults ==
    /\ [][endedBy = "interrupt" =>
            /\ requests' = requests
            /\ scraped_products' = scraped_products]_vars
    /\ [](endedBy = "interrupt" =>
            /\ pc \in {"return", "save", "finished"}
            /\ IsPrefix(scraped_products, upstream.products)
            /\ pc \in {"save", "finished"} =>
                  /\ Returned
                  /\ results[1] = scraped_products)

C36_Witness ==
    /\ endedBy = "interrupt"
    /\ pc = "finished"
    /\ requests = 2
    /\ Len(new_products) = 2
    /\ Len(upstream.products) = 3
    /\ Len(results[1]) = 2

(* C37: translate gives, for every key of the translation mapping, the   *)
(* value mapped to it, the keys of several words and the key with        *)
(* punctuation included.                                                 *)
C37_EveryKeyTranslated ==
    (translated # None /\ source_text \in DOMAIN translation_map) =>
        translated[1] = translation_map[source_text]

(* a step in which the background task of job_id runs *)
RunStep(job_id) == job_id \in background /\ job_id \notin background'

(* C38: the statuses run_scraper_job saves for a job are running and     *)
(* then one of completed, failed, cancelled, after the pending that      *)
(* create_job saved: when the run returns, the saved metadata is in a    *)
(* terminal status with completed_at set, and no saved metadata is ever  *)
(* left pending or running once the run is over.                         *)
C38_RunEndsInTerminalStatus ==
    /\ [][\A job_id \in JobIds : RunStep(job_id) =>
            LET saves == RunScraperJobSaves(Metadata("pending", job_id),
                                            job_id \in job_dirs)
            IN  /\ metadata[job_id] \in {NoFile, Metadata("pending", job_id)}
                /\ Len(saves) = 2
                /\ saves[1].status = "running"
                /\ saves[2].status \in Terminal
                /\ metadata'[job_id] = saves[2]
                /\ metadata'[job_id].status \in Terminal
                /\ metadata'[job_id].completed_at # None]_vars
    /\ [](\A job_id \in JobIds : Exists(metadata[job_id]) =>
            IF job_id \in background
            THEN metadata[job_id].status = "pending"
            ELSE /\ metadata[job_id].status \in Terminal
                 /\ metadata[job_id].completed_at # None)

C38_Witness ==
    /\ background = {}
    /\ uuids = 2
    /\ job_dirs = {1, 2}
    /\ metadata[1].status = "failed"
    /\ metadata[1].completed_at # None
    /\ metadata[2].status = "completed"
    /\ results_json[1] = NoFile
    /\ Exists(results_json[2])

(* C39: every job id the JobManager holds results or a task for is a job *)
(* it holds; once delete_job has removed a job, no entry for its id is   *)
(* left in jobs, results or active_tasks, and none comes back.           *)
C39_NoEntryWithoutJob ==
    /\ [](\A job_id \in JobIds :
            (\/ job_manager.results[job_id] # None
             \/ job_id \in job_manager.active_tasks)
               => job_manager.jobs[job_id] # None)
    /\ [][\A job_id \in 1..uuids :
            job_manager.jobs[job_id] = None =>
                /\ job_manager.jobs'[job_id] = None
                /\ job_manager.results'[job_id] = None
                /\ job_id \notin job_manager.active_tasks']_vars
    /\ [][(reply'.op = "service_delete_job" /\ reply' # reply
              /\ reply'.status_code = 200) =>
            LET job_id == reply'.request.job_id
            IN  /\ job_manager.jobs[job_id] # None
                /\ job_manager.jobs'[job_id] = None
                /\ job_manager.results'[job_id] = None
                /\ job_id \notin job_manager.active_tasks']_vars

C39_Witness ==
    /\ uuids = 2
    /\ event_loop = {}
    /\ job_manager.jobs[1] = None
    /\ job_manager.jobs[2] = Some(JobInfo("completed", Some(1)))
    /\ job_manager.results[1] = None
    /\ job_manager.results[2] = Some(<<1>>)
    /\ job_manager.active_tasks = {}
    /\ reply.op = "service_delete_job"
    /\ reply.status_code = 200
    /\ reply.request.job_id = 1

====
